---------------------------- MODULE Spec2Model ----------------------------
(***************************************************************************)
(* A model of pycpp (src/src/pycpp.py), a C preprocessor that keeps the    *)
(* formatting of the source text.                                          *)
(*                                                                         *)
(* Text is modelled at character level: a Python str is a sequence of      *)
(* one-character strings, <<"#","i","f">> for "#if".  Positions keep       *)
(* Python's 0-based convention (a position p addresses s[p + 1] of the     *)
(* TLA+ sequence), so that the operators below read like their source.     *)
(***************************************************************************)
EXTENDS Integers, Sequences, FiniteSets, TLC

(***************************************************************************)
(* Character classes of Python's re module under re.ASCII, and of          *)
(* str.strip().                                                            *)
(***************************************************************************)
Lower == {"a","b","c","d","e","f","g","h","i","j","k","l","m",
          "n","o","p","q","r","s","t","u","v","w","x","y","z"}

Upper == {"A","B","C","D","E","F","G","H","I","J","K","L","M",
          "N","O","P","Q","R","S","T","U","V","W","X","Y","Z"}

Digit == {"0","1","2","3","4","5","6","7","8","9"}

\* \w
WordChar == Lower \cup Upper \cup Digit \cup {"_"}

\* \s, and the characters str.strip() removes
Ws == {" ", "\t", "\n", "\r", "\f"}

\* [ \t]
Blank == {" ", "\t"}

\* [\s\\]
WsOrBackslash == Ws \cup {"\\"}

(***************************************************************************)
(* Python str primitives.                                                  *)
(***************************************************************************)
MinOf(S) == CHOOSE x \in S : \A y \in S : x <= y

MaxOf(S) == CHOOSE x \in S : \A y \in S : y <= x

\* s[a:b] for 0 <= a and b <= len(s)
Sub(s, a, b) == SubSeq(s, a + 1, b)

\* s[a:]
From(s, a) == SubSeq(s, a + 1, Len(s))

\* s[p : p + len(sub)] == sub
StartsAt(s, sub, p) ==
    /\ p >= 0
    /\ p + Len(sub) <= Len(s)
    /\ SubSeq(s, p + 1, p + Len(sub)) = sub

\* s.find(sub, start, end)
Find(s, sub, start, end) ==
    LET c == {p \in start..(end - Len(sub)) : StartsAt(s, sub, p)}
    IN  IF c = {} THEN -1 ELSE MinOf(c)

\* s.rfind(sub, start, end)
RFind(s, sub, start, end) ==
    LET c == {p \in start..(end - Len(sub)) : StartsAt(s, sub, p)}
    IN  IF c = {} THEN -1 ELSE MaxOf(c)

\* sub in s
Contains(s, sub) == Find(s, sub, 0, Len(s)) >= 0

\* s.count(ch) for a one-character ch
CountChar(s, ch) == Cardinality({i \in 1..Len(s) : s[i] = ch})

StartsWith(s, sub) == StartsAt(s, sub, 0)

EndsWith(s, sub) == StartsAt(s, sub, Len(s) - Len(sub))

\* the length of the longest run of characters of class cls starting at position p
RECURSIVE RunLen(_, _, _)
RunLen(s, p, cls) ==
    IF p < Len(s) /\ s[p + 1] \in cls THEN 1 + RunLen(s, p + 1, cls) ELSE 0

\* s.lstrip()
LStrip(s) == From(s, RunLen(s, 0, Ws))

\* s.rstrip()
RStrip(s) ==
    LET keep == {i \in 1..Len(s) : s[i] \notin Ws}
    IN  IF keep = {} THEN <<>> ELSE SubSeq(s, 1, MaxOf(keep))

\* s.strip()
Strip(s) == LStrip(RStrip(s))

\* sep.join(parts)
RECURSIVE Join(_, _)
Join(parts, sep) ==
    IF parts = <<>> THEN <<>>
    ELSE IF Len(parts) = 1 THEN parts[1]
    ELSE parts[1] \o sep \o Join(Tail(parts), sep)

\* s.splitlines() for "\n" line ends: a final "\n" opens no further line
RECURSIVE SplitLines(_)
SplitLines(s) ==
    IF s = <<>> THEN <<>>
    ELSE LET nl == Find(s, <<"\n">>, 0, Len(s))
         IN  IF nl < 0 THEN <<s>>
             ELSE <<Sub(s, 0, nl)>> \o SplitLines(From(s, nl + 1))

\* s.split(",")
RECURSIVE SplitComma(_)
SplitComma(s) ==
    LET c == Find(s, <<",">>, 0, Len(s))
    IN  IF c < 0 THEN <<s>>
        ELSE <<Sub(s, 0, c)>> \o SplitComma(From(s, c + 1))

\* s.replace(old, new)
RECURSIVE Replace(_, _, _)
Replace(s, old, new) ==
    LET p == Find(s, old, 0, Len(s))
    IN  IF p < 0 THEN s
        ELSE Sub(s, 0, p) \o new \o Replace(From(s, p + Len(old)), old, new)

\* n * " "
RECURSIVE Spaces(_)
Spaces(n) == IF n <= 0 THEN <<>> ELSE <<" ">> \o Spaces(n - 1)


(***************************************************************************)
(* CodeFormatter.                                                          *)
(***************************************************************************)
TabSize == 4

\* CodeFormatter.replace_tabs, for one line of the code
RECURSIVE ReplaceTabsLine(_)
ReplaceTabsLine(line) ==
    LET tab_pos == Find(line, <<"\t">>, 0, Len(line))
    IN  IF tab_pos < 0 THEN line
        ELSE ReplaceTabsLine(Sub(line, 0, tab_pos)
                             \o Spaces(TabSize - (tab_pos % TabSize))
                             \o From(line, tab_pos + 1))

\* CodeFormatter.replace_tabs: the code is held as its lines (code.splitlines()),
\* every line ends up terminated by "\n"
replace_tabs(lines) == [i \in 1..Len(lines) |-> ReplaceTabsLine(lines[i])]

\* the end of the match of RE_PTRN_LINE_CONT, [ \t]*\\[ \t]*\n, at position p, or -1
LineContEnd(s, p) ==
    LET b == p + RunLen(s, p, Blank)
        n == b + 1 + RunLen(s, b + 1, Blank)
    IN  IF StartsAt(s, <<"\\">>, b) /\ StartsAt(s, <<"\n">>, n) THEN n + 1 ELSE -1

\* RE_PTRN_LINE_CONT.sub(repl, code) from position p on
RECURSIVE SubLineCont(_, _, _)
SubLineCont(s, p, repl) ==
    IF p >= Len(s) THEN <<>>
    ELSE LET e == LineContEnd(s, p)
         IN  IF e >= 0 THEN repl \o SubLineCont(s, e, repl)
             ELSE <<s[p + 1]>> \o SubLineCont(s, p + 1, repl)

\* CodeFormatter.remove_line_escapes
remove_line_escapes(code, keep_newlines) ==
    SubLineCont(code, 0, IF keep_newlines THEN <<"\n">> ELSE <<>>)

\* CodeFormatter.remove_empty_lines
remove_empty_lines(code) ==
    LET lines == SplitLines(code)
        RECURSIVE Keep(_)
        Keep(ls) == IF ls = <<>> THEN <<>>
                    ELSE IF Strip(Head(ls)) # <<>> THEN <<Head(ls)>> \o Keep(Tail(ls))
                    ELSE Keep(Tail(ls))
    IN  Join(Keep(lines), <<"\n">>)

\* the length of the longest run of characters outside class cls starting at p
RECURSIVE RunLenNot(_, _, _)
RunLenNot(s, p, cls) ==
    IF p < Len(s) /\ s[p + 1] \notin cls THEN 1 + RunLenNot(s, p + 1, cls) ELSE 0

\* the end of the match of RE_PTRN_MLINE_CMNT, /\*.*?\*/ (DOTALL), at p, or -1
MlineCmntEnd(s, p) ==
    IF StartsAt(s, <<"/","*">>, p)
    THEN LET e == Find(s, <<"*","/">>, p + 2, Len(s))
         IN  IF e >= 0 THEN e + 2 ELSE -1
    ELSE -1

\* the end of the match of RE_PTRN_SLINE_CMNT, [ \t]*//[^\n]*, at p, or -1
SlineCmntEnd(s, p) ==
    LET b == p + RunLen(s, p, Blank)
    IN  IF StartsAt(s, <<"/","/">>, b) THEN b + 2 + RunLenNot(s, b + 2, {"\n"}) ELSE -1

\* __repl_with_spaces and __repl_with_newlines of remove_comments
ReplCmnt(m, with_spaces) ==
    IF with_spaces
    THEN [i \in 1..Len(m) |-> IF m[i] = "\n" THEN "\n" ELSE " "]
    ELSE [i \in 1..CountChar(m, "\n") |-> "\n"]

\* RE_PTRN_MLINE_CMNT.sub (mline) or RE_PTRN_SLINE_CMNT.sub from position p on
RECURSIVE SubCmnt(_, _, _, _)
SubCmnt(s, p, mline, with_spaces) ==
    IF p >= Len(s) THEN <<>>
    ELSE LET e == IF mline THEN MlineCmntEnd(s, p) ELSE SlineCmntEnd(s, p)
         IN  IF e >= 0
             THEN ReplCmnt(Sub(s, p, e), with_spaces) \o SubCmnt(s, e, mline, with_spaces)
             ELSE <<s[p + 1]>> \o SubCmnt(s, p + 1, mline, with_spaces)

\* CodeFormatter.remove_comments: with neither flag set no branch is taken and
\* the code is returned as it came
remove_comments(code, replace_with_spaces, replace_with_newlines) ==
    IF replace_with_spaces
    THEN SubCmnt(SubCmnt(code, 0, TRUE, TRUE), 0, FALSE, TRUE)
    ELSE IF replace_with_newlines
    THEN SubCmnt(SubCmnt(code, 0, TRUE, FALSE), 0, FALSE, FALSE)
    ELSE code

\* the end of the match of RE_PTRN_NUM_CONST, (?P<num>\d[\d.]*\d*)(?:[uUlLfF]+),
\* at position p as <<end of num, end of match>>, or <<-1, -1>>
NumSuffix == {"u","U","l","L","f","F"}

NumConstEnd(s, p) ==
    IF p < Len(s) /\ s[p + 1] \in Digit
    THEN LET n == p + 1 + RunLen(s, p + 1, Digit \cup {"."})
             k == RunLen(s, n, NumSuffix)
         IN  IF k > 0 THEN <<n, n + k>> ELSE <<-1, -1>>
    ELSE <<-1, -1>>

\* CodeFormatter.remove_num_type_suffix from position p on
RECURSIVE SubNumConst(_, _)
SubNumConst(s, p) ==
    IF p >= Len(s) THEN <<>>
    ELSE LET m == NumConstEnd(s, p)
         IN  IF m[1] >= 0 THEN Sub(s, p, m[1]) \o SubNumConst(s, m[2])
             ELSE <<s[p + 1]>> \o SubNumConst(s, p + 1)

remove_num_type_suffix(code) == SubNumConst(code, 0)

\* CodeFormatter.get_enclosed_subst_pos with the default "(", ")" and prefix \s*:
\* the prefix pattern matches the empty string, so its test never fails
RECURSIVE EnclosedEnd(_, _, _)
EnclosedEnd(code, s_pos, e_pos) ==
    IF e_pos >= 0 /\ CountChar(Sub(code, s_pos, e_pos + 1), "(")
                       # CountChar(Sub(code, s_pos, e_pos + 1), ")")
    THEN EnclosedEnd(code, s_pos, Find(code, <<")">>, e_pos + 1, Len(code)))
    ELSE e_pos

get_enclosed_subst_pos(code, start_pos) ==
    LET s_pos == Find(code, <<"(">>, start_pos, Len(code))
    IN  IF s_pos >= 0
        THEN LET e_pos == EnclosedEnd(code, s_pos, Find(code, <<")">>, s_pos + 1, Len(code)))
             IN  IF e_pos < 0 THEN <<-1, e_pos>> ELSE <<s_pos, e_pos>>
        ELSE <<s_pos, -1>>

\* CodeFormatter.is_in_comment
is_in_comment(code, pos) ==
    /\ 0 <= pos
    /\ pos < Len(code)
    /\ LET blk == RFind(code, <<"/","*">>, 0, pos)
           in_block == blk >= 0 /\ Find(code, <<"*","/">>, blk, pos) < 0
           sl == RFind(code, <<"/","/">>, 0, pos)
       IN  \/ in_block
           \/ sl >= 0 /\ Find(code, <<"\n">>, sl, pos) < 0

\* CodeFormatter.is_in_string
is_in_string(code, pos) ==
    /\ 0 <= pos
    /\ pos < Len(code)
    /\ LET newline_pos == RFind(code, <<"\n">>, 0, pos) + 1
           dbl_quote_count == CountChar(Sub(code, newline_pos, pos), "\"")
           sgl_quote_count == CountChar(Sub(code, newline_pos, pos), "'")
       IN  dbl_quote_count % 2 = 1 \/ sgl_quote_count % 2 = 1


(***************************************************************************)
(* ConditionManager.  A condition manager is a record of the current       *)
(* branch_state and the branch_state_stack; err tells whether the call    *)
(* reported the "Unexpected #endif" error.                                 *)
(***************************************************************************)
ACTIVE == "ACTIVE"

SEARCH == "SEARCH"

IGNORE == "IGNORE"

BranchState == {ACTIVE, SEARCH, IGNORE}

\* ConditionManager.__init__ and reset
NewCondMngr == [branch_state |-> ACTIVE, branch_state_stack |-> <<>>]

branch_depth(cm) == Len(cm.branch_state_stack)

\* branch_active with a fault: every branch counts as active
branch_active_always(cm) == cm.branch_state \in {ACTIVE, SEARCH, IGNORE}

branch_active(cm) == cm.branch_state = ACTIVE

branch_search_active(cm) == cm.branch_state \in {SEARCH, ACTIVE}

\* enter_if with a fault: a true condition makes the branch active in every state
enter_if_any_state(cm, is_true) ==
    [branch_state |-> IF is_true THEN ACTIVE
                      ELSE IF cm.branch_state = ACTIVE THEN SEARCH ELSE IGNORE,
     branch_state_stack |-> Append(cm.branch_state_stack, cm.branch_state)]

enter_if(cm, is_true) ==
    [branch_state_stack |-> Append(cm.branch_state_stack, cm.branch_state),
     branch_state |-> IF cm.branch_state = ACTIVE
                      THEN (IF ~is_true THEN SEARCH ELSE cm.branch_state)
                      ELSE IGNORE]

\* enter_elif with a fault: a true condition makes an ignored branch active
enter_elif_reopens(cm, is_true) ==
    [cm EXCEPT !.branch_state = IF cm.branch_state \in {SEARCH, IGNORE}
                                THEN (IF is_true THEN ACTIVE ELSE cm.branch_state)
                                ELSE IGNORE]

\* enter_elif with a fault: a false condition ends the search
enter_elif_search_ends(cm, is_true) ==
    [cm EXCEPT !.branch_state = IF cm.branch_state = SEARCH /\ is_true THEN ACTIVE ELSE IGNORE]

enter_elif(cm, is_true) ==
    [cm EXCEPT !.branch_state =
        IF cm.branch_state = SEARCH
        THEN (IF is_true THEN ACTIVE ELSE cm.branch_state)
        ELSE IGNORE]

\* exit_if reports the error instead of popping when the stack is empty
ExitIfFails(cm) == branch_depth(cm) = 0

\* exit_if with a fault: without a pushed state the manager goes to IGNORE
exit_if_ignores(cm) ==
    IF cm.branch_state_stack = <<>> THEN [cm EXCEPT !.branch_state = IGNORE]
    ELSE [branch_state |-> cm.branch_state_stack[Len(cm.branch_state_stack)],
          branch_state_stack |-> SubSeq(cm.branch_state_stack, 1,
                                        Len(cm.branch_state_stack) - 1)]

exit_if(cm) ==
    IF branch_depth(cm) > 0
    THEN [branch_state |-> cm.branch_state_stack[Len(cm.branch_state_stack)],
          branch_state_stack |-> SubSeq(cm.branch_state_stack, 1,
                                        Len(cm.branch_state_stack) - 1)]
    ELSE cm

(***************************************************************************)
(* CodeType and PreprocInput.yield_code_parts.                             *)
(***************************************************************************)
CODE == "CODE"

DIRECTIVE == "DIRECTIVE"

COMMENT == "COMMENT"

SPACE == "SPACE"

CodeType == {CODE, DIRECTIVE, COMMENT, SPACE}

\* the index of the last line of a "\"-continued run whose first line is i
RECURSIVE ContLast(_, _)
ContLast(in_lines, i) ==
    IF i >= Len(in_lines) THEN i
    ELSE IF ~EndsWith(RStrip(in_lines[i + 1]), <<"\\">>) THEN i + 1
    ELSE ContLast(in_lines, i + 1)

\* the index of the last line of a multiline comment opened on line i
RECURSIVE CmntLast(_, _)
CmntLast(in_lines, i) ==
    IF i >= Len(in_lines) THEN i
    ELSE IF Contains(RStrip(in_lines[i + 1]), <<"*","/">>) THEN i + 1
    ELSE CmntLast(in_lines, i + 1)

\* the index of the last line of a run of empty lines whose first line is i
RECURSIVE EmptyLast(_, _)
EmptyLast(in_lines, i) ==
    IF i < Len(in_lines) /\ Strip(in_lines[i + 1]) = <<>>
    THEN EmptyLast(in_lines, i + 1)
    ELSE i

\* the type yield_code_parts gives a part
PartType(out_code) ==
    LET out_code_stripped == Strip(out_code)
    IN  IF StartsWith(out_code_stripped, <<"#">>) THEN DIRECTIVE
        ELSE IF out_code_stripped = <<>> THEN SPACE
        ELSE IF \/ /\ StartsWith(out_code_stripped, <<"/","*">>)
                   /\ EndsWith(out_code_stripped, <<"*","/">>)
                \/ StartsWith(out_code_stripped, <<"/","/">>) THEN COMMENT
        ELSE CODE

\* PreprocInput.yield_code_parts from line line_idx (1-based) on: the parts in
\* order, each with its type, its text and whether the "Unterminated comment"
\* error was reported while it was read
RECURSIVE yield_code_parts(_, _)
yield_code_parts(in_lines, line_idx) ==
    IF line_idx > Len(in_lines) THEN <<>>
    ELSE
      LET in_line == RStrip(in_lines[line_idx])
          is_cont == EndsWith(in_line, <<"\\">>)
          is_cmnt == ~is_cont /\ Contains(in_line, <<"/","*">>)
                              /\ ~Contains(in_line, <<"*","/">>)
          is_empty == ~is_cont /\ ~is_cmnt /\ in_line = <<>>
          last == IF is_cont THEN ContLast(in_lines, line_idx)
                  ELSE IF is_cmnt THEN CmntLast(in_lines, line_idx)
                  ELSE IF is_empty THEN EmptyLast(in_lines, line_idx)
                  ELSE line_idx
          out_lines == [k \in 1..(last - line_idx + 1) |->
                          IF is_empty THEN <<>> ELSE RStrip(in_lines[line_idx + k - 1])]
          out_code == Join(out_lines, <<"\n">>)
          unterminated == is_cmnt /\ (last = line_idx
                                      \/ ~Contains(RStrip(in_lines[last]), <<"*","/">>))
      IN  <<[type |-> PartType(out_code), text |-> out_code,
             unterminated |-> unterminated]>>
          \o yield_code_parts(in_lines, last + 1)

(***************************************************************************)
(* PreprocOutput.                                                          *)
(***************************************************************************)
\* PreprocOutput.__init__ and reset
NewOutput ==
    [last_space |-> <<>>, last_comment |-> <<>>, non_empty |-> FALSE,
     code |-> <<>>, code_all |-> <<>>]

\* add_code_part with a fault: a directive is not written to code_all
add_code_part_no_directives(out, code_part, code_type) ==
    LET all == IF code_type = DIRECTIVE THEN out
               ELSE [out EXCEPT !.code_all = out.code_all \o code_part \o <<"\n">>]
    IN  CASE code_type = SPACE ->
               [all EXCEPT !.last_space = IF out.non_empty THEN code_part \o <<"\n">>
                                          ELSE out.last_space,
                           !.last_comment = <<>>]
          [] code_type = COMMENT ->
               [all EXCEPT !.last_comment = out.last_comment \o code_part \o <<"\n">>]
          [] code_type = DIRECTIVE ->
               [all EXCEPT !.last_space = <<>>, !.last_comment = <<>>]
          [] code_type = CODE ->
               [all EXCEPT !.code = out.code \o out.last_space \o out.last_comment
                                    \o code_part \o <<"\n">>,
                           !.last_space = <<>>,
                           !.last_comment = <<>>,
                           !.non_empty = TRUE]

\* add_code_part with a fault: the empty lines before a code part are not written
add_code_part_no_space(out, code_part, code_type) ==
    LET all == [out EXCEPT !.code_all = out.code_all \o code_part \o <<"\n">>]
    IN  CASE code_type = SPACE ->
               [all EXCEPT !.last_space = IF out.non_empty THEN code_part \o <<"\n">>
                                          ELSE out.last_space,
                           !.last_comment = <<>>]
          [] code_type = COMMENT ->
               [all EXCEPT !.last_comment = out.last_comment \o code_part \o <<"\n">>]
          [] code_type = DIRECTIVE ->
               [all EXCEPT !.last_space = <<>>, !.last_comment = <<>>]
          [] code_type = CODE ->
               [all EXCEPT !.code = out.code \o out.last_comment
                                    \o code_part \o <<"\n">>,
                           !.last_space = <<>>,
                           !.last_comment = <<>>,
                           !.non_empty = TRUE]

\* add_code_part with a fault: a directive is written to code as code is
add_code_part_emits_directives(out, code_part, code_type) ==
    LET all == [out EXCEPT !.code_all = out.code_all \o code_part \o <<"\n">>]
    IN  CASE code_type = SPACE ->
               [all EXCEPT !.last_space = IF out.non_empty THEN code_part \o <<"\n">>
                                          ELSE out.last_space,
                           !.last_comment = <<>>]
          [] code_type = COMMENT ->
               [all EXCEPT !.last_comment = out.last_comment \o code_part \o <<"\n">>]
          [] code_type \in {CODE, DIRECTIVE} ->
               [all EXCEPT !.code = out.code \o out.last_space \o out.last_comment
                                    \o code_part \o <<"\n">>,
                           !.last_space = <<>>,
                           !.last_comment = <<>>,
                           !.non_empty = TRUE]

\* add_code_part with a fault: empty lines keep the pending comment
add_code_part_keeps_comment(out, code_part, code_type) ==
    LET all == [out EXCEPT !.code_all = out.code_all \o code_part \o <<"\n">>]
    IN  CASE code_type = SPACE ->
               [all EXCEPT !.last_space = IF out.non_empty THEN code_part \o <<"\n">>
                                          ELSE out.last_space]
          [] code_type = COMMENT ->
               [all EXCEPT !.last_comment = out.last_comment \o code_part \o <<"\n">>]
          [] code_type = DIRECTIVE ->
               [all EXCEPT !.last_space = <<>>, !.last_comment = <<>>]
          [] code_type = CODE ->
               [all EXCEPT !.code = out.code \o out.last_space \o out.last_comment
                                    \o code_part \o <<"\n">>,
                           !.last_space = <<>>,
                           !.last_comment = <<>>,
                           !.non_empty = TRUE]

\* PreprocOutput.add_code_part
add_code_part(out, code_part, code_type) ==
    LET all == [out EXCEPT !.code_all = out.code_all \o code_part \o <<"\n">>]
    IN  CASE code_type = SPACE ->
               [all EXCEPT !.last_space = IF out.non_empty THEN code_part \o <<"\n">>
                                          ELSE out.last_space,
                           !.last_comment = <<>>]
          [] code_type = COMMENT ->
               [all EXCEPT !.last_comment = out.last_comment \o code_part \o <<"\n">>]
          [] code_type = DIRECTIVE ->
               [all EXCEPT !.last_space = <<>>, !.last_comment = <<>>]
          [] code_type = CODE ->
               [all EXCEPT !.code = out.code \o out.last_space \o out.last_comment
                                    \o code_part \o <<"\n">>,
                           !.last_space = <<>>,
                           !.last_comment = <<>>,
                           !.non_empty = TRUE]


(***************************************************************************)
(* Macro.  A macro is a record of its identifier, its args (the parameter  *)
(* names; empty for an object-like macro) and its body.                    *)
(*                                                                         *)
(* expand_args hands the argument values to re.sub as replacement          *)
(* templates, so that re parses their backslash escapes.  A result is a    *)
(* record [st, text]: st is "ok", or "error" when re raises re.error, or   *)
(* "unmodelled" for the escapes left out here (\g<name> other than the     *)
(* \g<1> and \g<2> of the source, and \digit).                             *)
(***************************************************************************)
Ok(text) == [st |-> "ok", text |-> text]

Failed(st) == [st |-> st, text |-> <<>>]

\* a result followed by more text
Then(r, text) == IF r.st = "ok" THEN Ok(r.text \o text) ELSE r

\* text followed by a result
Before(text, r) == IF r.st = "ok" THEN Ok(text \o r.text) ELSE r

\* the character an escape of a replacement template stands for (BEL, BS, VT
\* stand for the control characters \a, \b, \v)
TemplateEscape(c) ==
    CASE c = "n" -> "\n"
      [] c = "t" -> "\t"
      [] c = "r" -> "\r"
      [] c = "f" -> "\f"
      [] c = "a" -> "BEL"
      [] c = "b" -> "BS"
      [] c = "v" -> "VT"
      [] c = "\\" -> "\\"

\* the expansion of replacement template tpl from position p on, for a match
\* whose groups 1 and 2 are g1 and g2 (groups = 0: the pattern has no group)
RECURSIVE Template(_, _, _, _, _)
Template(tpl, p, groups, g1, g2) ==
    IF p >= Len(tpl) THEN Ok(<<>>)
    ELSE IF tpl[p + 1] # "\\"
    THEN Before(<<tpl[p + 1]>>, Template(tpl, p + 1, groups, g1, g2))
    ELSE IF p + 1 >= Len(tpl) THEN Failed("error")
    ELSE LET c == tpl[p + 2]
         IN  IF c = "g"
             THEN IF groups = 2 /\ StartsAt(tpl, <<"<","1",">">>, p + 2)
                  THEN Before(g1, Template(tpl, p + 5, groups, g1, g2))
                  ELSE IF groups = 2 /\ StartsAt(tpl, <<"<","2",">">>, p + 2)
                  THEN Before(g2, Template(tpl, p + 5, groups, g1, g2))
                  ELSE Failed("unmodelled")
             ELSE IF c \in Digit THEN Failed("unmodelled")
             ELSE IF c \in {"n","t","r","f","a","b","v","\\"}
             THEN Before(<<TemplateEscape(c)>>, Template(tpl, p + 2, groups, g1, g2))
             ELSE IF c \in Lower \cup Upper THEN Failed("error")
             ELSE Before(<<"\\", c>>, Template(tpl, p + 2, groups, g1, g2))

\* the end of the match of [\s\\]*##[\s\\]* followed by the literal name at p, or -1
PasteBeforeEnd(s, p, name) ==
    LET q == p + RunLen(s, p, WsOrBackslash)
        n == q + 2 + RunLen(s, q + 2, WsOrBackslash)
    IN  IF StartsAt(s, <<"#","#">>, q) /\ StartsAt(s, name, n) THEN n + Len(name) ELSE -1

\* the end of the match of the literal name followed by [\s\\]*##[\s\\]* at p, or -1
PasteAfterEnd(s, p, name) ==
    LET q == p + Len(name) + RunLen(s, p + Len(name), WsOrBackslash)
    IN  IF StartsAt(s, name, p) /\ StartsAt(s, <<"#","#">>, q)
        THEN q + 2 + RunLen(s, q + 2, WsOrBackslash)
        ELSE -1

\* re.sub of a pattern without groups from position p on: before = TRUE for
\* [\s\\]*##[\s\\]*name, FALSE for name[\s\\]*##[\s\\]*; name = <<>> gives the
\* final [\s\\]*##[\s\\]* of expand_args
RECURSIVE SubPaste(_, _, _, _, _)
SubPaste(s, p, name, before, tpl) ==
    IF p >= Len(s) THEN Ok(<<>>)
    ELSE LET e == IF before THEN PasteBeforeEnd(s, p, name) ELSE PasteAfterEnd(s, p, name)
         IN  IF e >= 0
             THEN LET r == Template(tpl, 0, 0, <<>>, <<>>)
                  IN  IF r.st = "ok" THEN Before(r.text, SubPaste(s, e, name, before, tpl))
                      ELSE r
             ELSE Before(<<s[p + 1]>>, SubPaste(s, p + 1, name, before, tpl))

\* ^ under re.MULTILINE
AtLineStart(s, p) == p = 0 \/ s[p] = "\n"

\* $ under re.MULTILINE
AtLineEnd(s, p) == p = Len(s) \/ s[p + 1] = "\n"

\* the match of  #\s*name($|[^\w])  (hash) or  name($|[^\w])  at q: <<end, group 2>>,
\* or <<-1, <<>> >>
ParamTailEnd(s, q, name, hash) ==
    LET n == IF hash THEN q + 1 + RunLen(s, q + 1, Ws) ELSE q
        e == n + Len(name)
    IN  IF (hash => StartsAt(s, <<"#">>, q)) /\ StartsAt(s, name, n)
        THEN IF AtLineEnd(s, e) THEN <<e, <<>> >>
             ELSE IF s[e + 1] \notin WordChar THEN <<e + 1, <<s[e + 1]>> >>
             ELSE <<-1, <<>> >>
        ELSE <<-1, <<>> >>

\* the match of  (^|[^#])#\s*name($|[^\w])  (hash) or  (^|[^\w])name($|[^\w])  at p:
\* <<end, group 1, group 2>>, or end = -1; the ^ alternative is tried first
ParamMatch(s, p, name, hash) ==
    LET a1 == IF AtLineStart(s, p) THEN ParamTailEnd(s, p, name, hash) ELSE <<-1, <<>> >>
        lead == p < Len(s) /\ (IF hash THEN s[p + 1] # "#" ELSE s[p + 1] \notin WordChar)
        a2 == IF lead THEN ParamTailEnd(s, p + 1, name, hash) ELSE <<-1, <<>> >>
    IN  IF a1[1] >= 0 THEN <<a1[1], <<>>, a1[2]>>
        ELSE IF a2[1] >= 0 THEN <<a2[1], <<s[p + 1]>>, a2[2]>>
        ELSE <<-1, <<>>, <<>> >>

\* re.sub of one of the two patterns with groups from position p on; an empty
\* match cannot occur since name is not empty
RECURSIVE SubParam(_, _, _, _, _)
SubParam(s, p, name, hash, tpl) ==
    IF p > Len(s) THEN Ok(<<>>)
    ELSE LET m == ParamMatch(s, p, name, hash)
         IN  IF m[1] >= 0
             THEN LET r == Template(tpl, 0, 2, m[2], m[3])
                  IN  IF r.st = "ok" THEN Before(r.text, SubParam(s, m[1], name, hash, tpl))
                      ELSE r
             ELSE IF p = Len(s) THEN Ok(<<>>)
             ELSE Before(<<s[p + 1]>>, SubParam(s, p + 1, name, hash, tpl))

G1 == <<"\\","g","<","1",">">>

G2 == <<"\\","g","<","2",">">>

\* re compiles the replacement template before it looks for a match: a bad
\* template raises even when the pattern matches nowhere
TemplateState(tpl, groups) == Template(tpl, 0, groups, <<>>, <<>>).st

\* the state of the first template of the sequence that re does not accept
RECURSIVE FirstBad(_)
FirstBad(states) ==
    IF states = <<>> THEN "ok"
    ELSE IF Head(states) # "ok" THEN Head(states)
    ELSE FirstBad(Tail(states))

\* the four re.sub calls of expand_args for one parameter, given the state of
\* their templates
ExpandOneArgWith(bad, exp_code, arg_name, arg_val, strTpl, expTpl) ==
    IF bad # "ok" THEN Failed(bad)
    ELSE LET c1 == SubPaste(exp_code, 0, arg_name, TRUE, arg_val).text
             c2 == SubPaste(c1, 0, arg_name, FALSE, arg_val).text
             c3 == SubParam(c2, 0, arg_name, TRUE, strTpl).text
         IN  SubParam(c3, 0, arg_name, FALSE, expTpl)

\* the templates of the stringification and of the replacement of the parameter
StrTpl(arg_val) == G1 \o <<"\"">> \o arg_val \o <<"\"">> \o G2

ExpTpl(fully_exp_arg_val) == G1 \o fully_exp_arg_val \o G2

ExpandOneArg(exp_code, arg_name, arg_val, fully_exp_arg_val) ==
    ExpandOneArgWith(FirstBad(<<TemplateState(arg_val, 0),
                                TemplateState(StrTpl(arg_val), 2),
                                TemplateState(ExpTpl(fully_exp_arg_val), 2)>>),
                     exp_code, arg_name, arg_val, StrTpl(arg_val),
                     ExpTpl(fully_exp_arg_val))

\* the values of the variadic parameter at index arg_idx (0-based): the values
\* from there on, each followed by ", ", less the last two characters
RECURSIVE VaJoin(_, _)
VaJoin(vals, arg_idx) ==
    IF arg_idx >= Len(vals) THEN <<>>
    ELSE vals[arg_idx + 1] \o <<",", " ">> \o VaJoin(vals, arg_idx + 1)

VaArgs(vals, arg_idx) ==
    LET j == VaJoin(vals, arg_idx) IN SubSeq(j, 1, Len(j) - 2)

VA_ARGS == <<"_","_","V","A","_","A","R","G","S","_","_">>

ELLIPSIS == <<".",".",".">>

\* the value of the parameter at index arg_idx (0-based) among the given values
ArgVal(args, arg_idx, vals) ==
    IF args[arg_idx + 1] = ELLIPSIS THEN VaArgs(vals, arg_idx)
    ELSE IF arg_idx < Len(vals) THEN vals[arg_idx + 1]
    ELSE <<>>

\* the loop of expand_args over the parameters from index arg_idx (0-based) on;
\* ExpandArgsNext is the loop after the parameter at arg_idx, r its result
RECURSIVE ExpandArgsFrom(_, _, _, _, _)
RECURSIVE ExpandArgsNext(_, _, _, _, _)
ExpandArgsFrom(exp_code, args, arg_idx, arg_vals, fully_exp_arg_vals) ==
    IF arg_idx >= Len(args) THEN Ok(exp_code)
    ELSE ExpandArgsNext(ExpandOneArg(exp_code,
                                     IF args[arg_idx + 1] = ELLIPSIS THEN VA_ARGS
                                     ELSE args[arg_idx + 1],
                                     ArgVal(args, arg_idx, arg_vals),
                                     ArgVal(args, arg_idx, fully_exp_arg_vals)),
                        args, arg_idx, arg_vals, fully_exp_arg_vals)

ExpandArgsNext(r, args, arg_idx, arg_vals, fully_exp_arg_vals) ==
    IF r.st # "ok" THEN r
    ELSE ExpandArgsFrom(r.text, args, arg_idx + 1, arg_vals, fully_exp_arg_vals)

\* the end of expand_args: the "##" left are removed with the whitespace around
\* them, and the result is stripped on the left
PasteRest(r) ==
    IF r.st # "ok" THEN r
    ELSE Ok(LStrip(SubPaste(r.text, 0, <<>>, TRUE, <<>>).text))

\* Macro.expand_args; with_vals = FALSE is the call without argument values
expand_args(macro, with_vals, arg_vals, fully_exp_arg_vals) ==
    PasteRest(IF with_vals
              THEN ExpandArgsFrom(macro.body, macro.args, 0, arg_vals, fully_exp_arg_vals)
              ELSE Ok(macro.body))


(***************************************************************************)
(* PyCpp: the macro table and the helpers of expand_macros.  The macro     *)
(* table (a dict, iterated in insertion order) is the sequence of its      *)
(* macros in that order.                                                   *)
(***************************************************************************)
\* ident in self.macros
IsDefined(macros, ident) == \E i \in 1..Len(macros) : macros[i].identifier = ident

\* self.macros[ident] = macro: a key already present keeps its place
SetMacro(macros, macro) ==
    IF IsDefined(macros, macro.identifier)
    THEN [i \in 1..Len(macros) |->
            IF macros[i].identifier = macro.identifier THEN macro ELSE macros[i]]
    ELSE Append(macros, macro)

\* del self.macros[ident]
RECURSIVE DelMacro(_, _)
DelMacro(macros, ident) ==
    IF macros = <<>> THEN <<>>
    ELSE IF Head(macros).identifier = ident THEN Tail(macros)
    ELSE <<Head(macros)>> \o DelMacro(Tail(macros), ident)

\* PyCpp.__get_macro_ident_pos: the start of group "id" of the first match of
\* (?:^|[^\w])(?P<id>ident) followed by \s*\( (has_args) or (?:$|[^\w])
get_macro_ident_pos(code, macro_ident, has_args) ==
    LET e(q) == q + Len(macro_ident)
        found == {q \in 0..(Len(code) - Len(macro_ident)) :
                    /\ StartsAt(code, macro_ident, q)
                    /\ (q = 0 \/ code[q] \notin WordChar)
                    /\ IF has_args
                       THEN StartsAt(code, <<"(">>, e(q) + RunLen(code, e(q), Ws))
                       ELSE e(q) = Len(code) \/ code[e(q) + 1] \notin WordChar}
    IN  IF found = {} THEN -1 ELSE MinOf(found)

\* whether an argument is incomplete: an odd number of quotes or apostrophes,
\* or parentheses that do not pair
ArgOpen(arg) ==
    \/ CountChar(arg, "\"") % 2 = 1
    \/ CountChar(arg, "'") % 2 = 1
    \/ CountChar(arg, "(") # CountChar(arg, ")")

\* the loop of __extract_macro_ref_args over temp_args[1:]
RECURSIVE MergeArgs(_, _)
MergeArgs(args, temp_args) ==
    IF temp_args = <<>> THEN args
    ELSE LET last == args[Len(args)]
         IN  IF ArgOpen(last)
             THEN MergeArgs([args EXCEPT ![Len(args)] = last \o <<",", " ">> \o Head(temp_args)],
                            Tail(temp_args))
             ELSE MergeArgs(Append(args, Strip(Head(temp_args))), Tail(temp_args))

\* PyCpp.__extract_macro_ref_args
extract_macro_ref_args(args_code) ==
    IF args_code = <<>> THEN <<>>
    ELSE LET temp_args == SplitComma(Replace(Strip(args_code), <<"\n">>, <<>>))
         IN  MergeArgs(<<temp_args[1]>>, Tail(temp_args))

\* PyCpp.__insert_expanded_macro
insert_expanded_macro(code, macro_ref_start_pos, macro_ref_end_pos, exp_macro_code) ==
    LET out_code == Sub(code, 0, macro_ref_start_pos)
        macro_insert_line ==
            IF Contains(out_code, <<"\n">>)
            THEN SplitLines(out_code)[Len(SplitLines(out_code))]
            ELSE out_code
        strip_insert_line == LStrip(macro_insert_line)
        indent_symbols ==
            IF strip_insert_line # <<>>
            THEN Sub(macro_insert_line, 0, Len(macro_insert_line) - Len(strip_insert_line))
            ELSE macro_insert_line
        lines == SplitLines(exp_macro_code)
        indented == [idx \in 1..Len(lines) |->
                        IF idx > 1 THEN RStrip(indent_symbols \o lines[idx]) ELSE lines[idx]]
    IN  out_code
        \o (IF Contains(exp_macro_code, <<"\n">>) THEN Join(indented, <<"\n">>)
            ELSE exp_macro_code)
        \o From(code, macro_ref_end_pos)

DEFINED == <<"d","e","f","i","n","e","d">>

\* the match of  defined[ \t]*\(?\s*(?P<ident>\w+)[ \t]*\)?  at q: <<end, ident>>,
\* or end = -1
DefinedTail(s, q) ==
    LET a == q + Len(DEFINED) + RunLen(s, q + Len(DEFINED), Blank)
        b == IF StartsAt(s, <<"(">>, a) THEN a + 1 ELSE a
        c == b + RunLen(s, b, Ws)
        n == RunLen(s, c, WordChar)
        d == c + n + RunLen(s, c + n, Blank)
    IN  IF StartsAt(s, DEFINED, q) /\ n > 0
        THEN <<IF StartsAt(s, <<")">>, d) THEN d + 1 ELSE d, Sub(s, c, c + n)>>
        ELSE <<-1, <<>> >>

\* the match of the pattern of __eval_defined, (?:^|[ \t])defined..., at p
DefinedMatch(s, p) ==
    LET a1 == IF AtLineStart(s, p) THEN DefinedTail(s, p) ELSE <<-1, <<>> >>
        a2 == IF p < Len(s) /\ s[p + 1] \in Blank THEN DefinedTail(s, p + 1)
              ELSE <<-1, <<>> >>
    IN  IF a1[1] >= 0 THEN a1 ELSE a2

\* PyCpp.__eval_defined from position p on
RECURSIVE SubDefined(_, _, _)
SubDefined(macros, s, p) ==
    IF p >= Len(s) THEN <<>>
    ELSE LET m == DefinedMatch(s, p)
         IN  IF m[1] >= 0
             THEN <<" ", IF IsDefined(macros, m[2]) THEN "1" ELSE "0">>
                  \o SubDefined(macros, s, m[1])
             ELSE <<s[p + 1]>> \o SubDefined(macros, s, p + 1)

eval_defined(macros, code) == SubDefined(macros, code, 0)


(***************************************************************************)
(* The directive patterns of PyCpp.__init__, matched by Directive.process  *)
(* at the start of the directive with its line escapes removed.            *)
(***************************************************************************)
\* the end of the match of ^[ \t]*#[ \t]*kw, or -1
DirectiveHead(s, kw) ==
    LET h == RunLen(s, 0, Blank)
        k == h + 1 + RunLen(s, h + 1, Blank)
    IN  IF StartsAt(s, <<"#">>, h) /\ StartsAt(s, kw, k) THEN k + Len(kw) ELSE -1

\* kw[ \t]+(?P<expr>.*) : whether it matches, and group "expr"
ExprMatch(s, kw) ==
    LET e == DirectiveHead(s, kw)
        b == RunLen(s, e, Blank)
    IN  IF e >= 0 /\ b > 0
        THEN [matched |-> TRUE, expr |-> Sub(s, e + b, e + b + RunLenNot(s, e + b, {"\n"}))]
        ELSE [matched |-> FALSE, expr |-> <<>>]

\* kw(?:\s|$)
WordMatch(s, kw) ==
    LET e == DirectiveHead(s, kw)
    IN  e >= 0 /\ (e = Len(s) \/ s[e + 1] \in Ws)

KwIf == <<"i","f">>

KwElif == <<"e","l","i","f">>

KwElse == <<"e","l","s","e">>

KwEndif == <<"e","n","d","i","f">>

KwIfdef == <<"i","f","d","e","f">>

KwIfndef == <<"i","f","n","d","e","f">>

KwDefine == <<"d","e","f","i","n","e">>

KwUndef == <<"u","n","d","e","f">>

KwInclude == <<"i","n","c","l","u","d","e">>

\* the first pattern of DirectiveGroup.CONDITIONAL that matches, in the order of
\* the tuple, with its group "expr"; kind "none" when none does
ConditionalMatch(s) ==
    CASE ExprMatch(s, KwIf).matched -> [kind |-> "if", expr |-> ExprMatch(s, KwIf).expr]
      [] ExprMatch(s, KwElif).matched -> [kind |-> "elif", expr |-> ExprMatch(s, KwElif).expr]
      [] WordMatch(s, KwElse) -> [kind |-> "else", expr |-> <<>>]
      [] WordMatch(s, KwEndif) -> [kind |-> "endif", expr |-> <<>>]
      [] ExprMatch(s, KwIfdef).matched -> [kind |-> "ifdef", expr |-> ExprMatch(s, KwIfdef).expr]
      [] ExprMatch(s, KwIfndef).matched ->
            [kind |-> "ifndef", expr |-> ExprMatch(s, KwIfndef).expr]
      [] OTHER -> [kind |-> "none", expr |-> <<>>]

\* define[ \t]+(?P<ident>\w+)(?:\((?P<args>[^\)]*)\))? and undef[ \t]+(?P<ident>\w+):
\* has_args tells whether group "args" took part in the match
IdentMatch(s, kw) ==
    LET e == DirectiveHead(s, kw)
        i == e + RunLen(s, e, Blank)
        n == RunLen(s, i, WordChar)
        close == Find(s, <<")">>, i + n + 1, Len(s))
        has_args == kw = KwDefine /\ StartsAt(s, <<"(">>, i + n) /\ close >= 0
    IN  IF e >= 0 /\ i > e /\ n > 0
        THEN [matched |-> TRUE, ident |-> Sub(s, i, i + n), has_args |-> has_args,
              args |-> IF has_args THEN Sub(s, i + n + 1, close) ELSE <<>>]
        ELSE [matched |-> FALSE, ident |-> <<>>, has_args |-> FALSE, args |-> <<>>]

\* include[ \t]+(?:\"|<)(?P<file>[^\">]+)(?:\"|>)
IncludeMatch(s) ==
    LET e == DirectiveHead(s, KwInclude)
        q == e + RunLen(s, e, Blank)
        n == RunLenNot(s, q + 1, {"\"", ">"})
    IN  IF /\ e >= 0
           /\ q > e
           /\ q < Len(s)
           /\ s[q + 1] \in {"\"", "<"}
           /\ n > 0
           /\ q + 1 + n < Len(s)
        THEN [matched |-> TRUE, file |-> Sub(s, q + 1, q + 1 + n)]
        ELSE [matched |-> FALSE, file |-> <<>>]

\* the first pattern of DirectiveGroup.STANDARD that matches
StandardMatch(s) ==
    CASE IdentMatch(s, KwDefine).matched -> "define"
      [] IdentMatch(s, KwUndef).matched -> "undef"
      [] IncludeMatch(s).matched -> "include"
      [] OTHER -> "none"

\* the longest common prefix of two strings
RECURSIVE CommonPrefix(_, _)
CommonPrefix(a, b) ==
    IF a # <<>> /\ b # <<>> /\ Head(a) = Head(b)
    THEN <<Head(a)>> \o CommonPrefix(Tail(a), Tail(b))
    ELSE <<>>

\* textwrap.dedent: lines of blanks only become empty, and the longest common
\* leading run of blanks of the other lines is removed from them
Dedent(text) ==
    LET raw == SplitLines(text)
        lines == [i \in 1..Len(raw) |->
                    IF RunLen(raw[i], 0, Blank) = Len(raw[i]) THEN <<>> ELSE raw[i]]
        indent(i) == Sub(lines[i], 0, RunLen(lines[i], 0, Blank))
        RECURSIVE Margin(_, _)
        Margin(i, m) == IF i > Len(lines) THEN m
                        ELSE IF lines[i] = <<>> THEN Margin(i + 1, m)
                        ELSE Margin(i + 1, CommonPrefix(m, indent(i)))
        first == IF {i \in 1..Len(lines) : lines[i] # <<>>} = {} THEN 0
                 ELSE MinOf({i \in 1..Len(lines) : lines[i] # <<>>})
        margin == IF first = 0 THEN <<>> ELSE Margin(first, indent(first))
    IN  Join([i \in 1..Len(lines) |->
                IF StartsWith(lines[i], margin) THEN From(lines[i], Len(margin))
                ELSE lines[i]], <<"\n">>)

\* the end of the first match of the last parameter followed by \s*\) : the
\* parameter is put in the pattern as it is, so that "..." stands for any three
\* characters other than "\n"; -1 when there is no match
LastArgEnd(s, last) ==
    LET lit(p) == IF last = ELLIPSIS
                  THEN p + 3 <= Len(s) /\ ~Contains(Sub(s, p, p + 3), <<"\n">>)
                  ELSE StartsAt(s, last, p)
        close(p) == p + Len(last) + RunLen(s, p + Len(last), Ws)
        found == {p \in 0..Len(s) : lit(p) /\ StartsAt(s, <<")">>, close(p))}
    IN  IF found = {} THEN -1 ELSE close(MinOf(found)) + 1

\* the end of the first match of ident[ \t]* : the identifier is looked up
\* anywhere in the directive, not as a whole word; -1 when there is no match
IdentEnd(s, ident) ==
    LET p == Find(s, ident, 0, Len(s))
    IN  IF p < 0 THEN -1 ELSE p + Len(ident) + RunLen(s, p + Len(ident), Blank)

\* PyCpp.__process_define with the groups of the match: the macro table after
\* it, and whether "Macro body not detected" was reported
process_define(macros, m, code) ==
    LET raw == SplitComma(m.args)
        args_list == IF m.has_args THEN [i \in 1..Len(raw) |-> Strip(raw[i])] ELSE <<>>
        multiline_code == remove_line_escapes(code, TRUE)
        end == IF args_list # <<>> THEN LastArgEnd(multiline_code, args_list[Len(args_list)])
               ELSE IdentEnd(multiline_code, m.ident)
        rest == RStrip(From(multiline_code, end))
        body == IF StartsWith(rest, <<"\n">>) THEN Dedent(Tail(rest)) ELSE LStrip(rest)
    IN  IF end >= 0
        THEN [macros |-> SetMacro(macros, [identifier |-> m.ident, args |-> args_list,
                                           body |-> body]),
              err |-> FALSE]
        ELSE [macros |-> macros, err |-> TRUE]

\* PyCpp.__process_undef
process_undef(macros, m) ==
    IF IsDefined(macros, m.ident) THEN DelMacro(macros, m.ident) ELSE macros


(***************************************************************************)
(* Python's eval, for the expressions evaluate hands it.  The model covers *)
(* a fragment of Python: decimal integers, True and False, names that      *)
(* nothing binds (ModelNames), calls of such names with at most one        *)
(* argument, parentheses, unary + - not, the binary operators              *)
(* + - * // % << >> < > <= >= == != and or.  An expression                 *)
(* outside the fragment evaluates to Unmodelled, which no input of the     *)
(* specifications below produces.  A value is [t, v] with t "int" or       *)
(* "bool" (v 0 or 1); an exception is [t |-> "exc", v |-> its class].      *)
(***************************************************************************)
\* identifiers that neither evaluate's scope, nor the module, nor builtins bind
ModelNames ==
    {<<"X">>, <<"Y">>, <<"N">>, <<"x">>, <<"y">>, <<"u">>, <<"v">>,
     <<"d","e","f","i","n","e","d">>}

MaxShift == 8

PyInt(n) == [t |-> "int", v |-> n]

PyBool(b) == [t |-> "bool", v |-> IF b THEN 1 ELSE 0]

PyExc(cls) == [t |-> "exc", v |-> cls]

Unmodelled == [t |-> "unmodelled", v |-> 0]

OpChars == {"+", "-", "*", "/", "%", "<", ">", "=", "!"}

\* the decimal value of a run of digits
RECURSIVE DecValue(_)
DecValue(ds) ==
    IF ds = <<>> THEN 0
    ELSE 10 * DecValue(SubSeq(ds, 1, Len(ds) - 1))
         + (CHOOSE d \in 0..9 : <<"0","1","2","3","4","5","6","7","8","9">>[d + 1]
                                 = ds[Len(ds)])

\* the operator token at position p: the longest of the operators of the fragment
OpAt(s, p) ==
    LET two == Sub(s, p, MinOf({p + 2, Len(s)}))
    IN  IF two \in {<<"/","/">>, <<"<","<">>, <<">",">">>, <<"<","=">>, <<">","=">>,
                    <<"=","=">>, <<"!","=">>}
        THEN two
        ELSE <<s[p + 1]>>

\* the tokens of an expression from position p on: [k |-> kind, x |-> text]
RECURSIVE Tokens(_, _)
Tokens(s, p) ==
    IF p >= Len(s) THEN <<>>
    ELSE LET c == s[p + 1]
         IN  IF c \in Blank THEN Tokens(s, p + 1)
             ELSE IF c \in Digit
             THEN LET n == RunLen(s, p, Digit)
                      k == IF RunLen(s, p + n, WordChar \cup {"."}) > 0 THEN "unmodelled"
                           ELSE IF c = "0" /\ RunLen(s, p, {"0"}) < n THEN "bad"
                           ELSE "int"
                  IN  <<[k |-> k, x |-> Sub(s, p, p + n)]>>
                      \o Tokens(s, p + n + RunLen(s, p + n, WordChar \cup {"."}))
             ELSE IF c \in WordChar
             THEN LET n == RunLen(s, p, WordChar)
                      w == Sub(s, p, p + n)
                      k == IF w \in {<<"a","n","d">>, <<"o","r">>, <<"n","o","t">>} THEN "op"
                           ELSE IF w \in {<<"T","r","u","e">>, <<"F","a","l","s","e">>}
                           THEN "bool"
                           ELSE IF w \in ModelNames THEN "name"
                           ELSE "unmodelled"
                  IN  <<[k |-> k, x |-> w]>> \o Tokens(s, p + n)
             ELSE IF c \in {"(", ")"} THEN <<[k |-> "paren", x |-> <<c>>]>> \o Tokens(s, p + 1)
             ELSE IF c \in OpChars
             THEN LET o == OpAt(s, p)
                      k == IF o = <<"/">> THEN "unmodelled"
                           ELSE IF o = <<"*">> /\ StartsAt(s, <<"*">>, p + 1) THEN "unmodelled"
                           ELSE IF o \in {<<"!">>, <<"=">>} THEN "bad"
                           ELSE "op"
                  IN  <<[k |-> k, x |-> o]>> \o Tokens(s, p + Len(o))
             ELSE IF c = "?" THEN <<[k |-> "bad", x |-> <<c>>]>> \o Tokens(s, p + 1)
             ELSE <<[k |-> "unmodelled", x |-> <<c>>]>> \o Tokens(s, p + 1)

\* the binary operators of a precedence level; levels 3 (not) and 8 (unary + -)
\* are the prefix operators, level 9 the atoms
LevelOps(lvl) ==
    CASE lvl = 1 -> {<<"o","r">>}
      [] lvl = 2 -> {<<"a","n","d">>}
      [] lvl = 4 -> {<<"<">>, <<">">>, <<"<","=">>, <<">","=">>, <<"=","=">>, <<"!","=">>}
      [] lvl = 5 -> {<<"<","<">>, <<">",">">>}
      [] lvl = 6 -> {<<"+">>, <<"-">>}
      [] lvl = 7 -> {<<"*">>, <<"/","/">>, <<"%">>}
      [] OTHER -> {}

IsOp(toks, ops) == toks # <<>> /\ toks[1].k = "op" /\ toks[1].x \in ops

IsParen(toks, c) == toks # <<>> /\ toks[1].k = "paren" /\ toks[1].x = <<c>>

Parsed(ast, rest) == [st |-> "ok", ast |-> ast, rest |-> rest]

ParseFail(st) == [st |-> st, ast |-> <<>>, rest |-> <<>>]

\* the parse of the tokens at a precedence level: [st, ast, rest] with st "ok",
\* "syntax" or "unmodelled"
RECURSIVE ParseLevel(_, _)
RECURSIVE ParseMore(_, _, _, _)
ParseLevel(toks, lvl) ==
    IF lvl \in {1, 2, 4, 5, 6, 7}
    THEN LET l == ParseLevel(toks, lvl + 1)
         IN  IF l.st # "ok" THEN l ELSE ParseMore(l.ast, l.rest, lvl, 0)
    ELSE IF lvl = 3
    THEN IF IsOp(toks, {<<"n","o","t">>})
         THEN LET r == ParseLevel(Tail(toks), 3)
              IN  IF r.st # "ok" THEN r
                  ELSE Parsed([op |-> <<"n","o","t">>, args |-> <<r.ast>>], r.rest)
         ELSE ParseLevel(toks, 4)
    ELSE IF lvl = 8
    THEN IF IsOp(toks, {<<"+">>, <<"-">>})
         THEN LET r == ParseLevel(Tail(toks), 8)
              IN  IF r.st # "ok" THEN r
                  ELSE Parsed([op |-> <<"u">> \o toks[1].x, args |-> <<r.ast>>], r.rest)
         ELSE ParseLevel(toks, 9)
    ELSE IF toks = <<>> THEN ParseFail("syntax")
    ELSE IF toks[1].k = "name" /\ IsParen(Tail(toks), "(")
    THEN IF IsParen(Tail(Tail(toks)), ")")
         THEN IF IsParen(Tail(Tail(Tail(toks))), "(") THEN ParseFail("unmodelled")
              ELSE Parsed([op |-> <<"call">>, args |-> <<toks[1].x>>], Tail(Tail(Tail(toks))))
         ELSE LET r == ParseLevel(Tail(Tail(toks)), 1)
              IN  IF r.st # "ok" THEN r
                  ELSE IF ~IsParen(r.rest, ")") THEN ParseFail("syntax")
                  ELSE IF IsParen(Tail(r.rest), "(") THEN ParseFail("unmodelled")
                  ELSE Parsed([op |-> <<"call">>, args |-> <<toks[1].x>>], Tail(r.rest))
    ELSE IF toks[1].k \in {"int", "bool", "name"}
    THEN IF IsParen(Tail(toks), "(") THEN ParseFail("unmodelled")
         ELSE Parsed([op |-> <<toks[1].k>>, args |-> <<toks[1].x>>], Tail(toks))
    ELSE IF IsParen(toks, "(")
    THEN IF IsParen(Tail(toks), ")") THEN ParseFail("unmodelled")
         ELSE LET r == ParseLevel(Tail(toks), 1)
              IN  IF r.st # "ok" THEN r
                  ELSE IF ~IsParen(r.rest, ")") THEN ParseFail("syntax")
                  ELSE IF IsParen(Tail(r.rest), "(") THEN ParseFail("unmodelled")
                  ELSE Parsed(r.ast, Tail(r.rest))
    ELSE ParseFail("syntax")

\* the operators of a level that follow an operand, left to right; a second
\* comparison would chain, which the fragment leaves out
ParseMore(left, toks, lvl, n) ==
    IF ~IsOp(toks, LevelOps(lvl)) THEN Parsed(left, toks)
    ELSE IF lvl = 4 /\ n > 0 THEN ParseFail("unmodelled")
    ELSE LET r == ParseLevel(Tail(toks), lvl + 1)
         IN  IF r.st # "ok" THEN r
             ELSE ParseMore([op |-> toks[1].x, args |-> <<left, r.ast>>], r.rest, lvl, n + 1)

FloorDiv(a, b) == IF b > 0 THEN a \div b ELSE (0 - a) \div (0 - b)

RECURSIVE Pow2(_)
Pow2(n) == IF n <= 0 THEN 1 ELSE 2 * Pow2(n - 1)

\* a binary operator of the fragment on two values
Apply(op, a, b) ==
    CASE op = <<"+">> -> PyInt(a.v + b.v)
      [] op = <<"-">> -> PyInt(a.v - b.v)
      [] op = <<"*">> -> PyInt(a.v * b.v)
      [] op = <<"/","/">> -> IF b.v = 0 THEN PyExc("ZeroDivisionError")
                             ELSE PyInt(FloorDiv(a.v, b.v))
      [] op = <<"%">> -> IF b.v = 0 THEN PyExc("ZeroDivisionError")
                         ELSE PyInt(a.v - b.v * FloorDiv(a.v, b.v))
      [] op = <<"<","<">> -> IF b.v < 0 THEN PyExc("ValueError")
                             ELSE IF b.v > MaxShift THEN Unmodelled
                             ELSE PyInt(a.v * Pow2(b.v))
      [] op = <<">",">">> -> IF b.v < 0 THEN PyExc("ValueError")
                             ELSE IF b.v > MaxShift THEN Unmodelled
                             ELSE PyInt(FloorDiv(a.v, Pow2(b.v)))
      [] op = <<"<">> -> PyBool(a.v < b.v)
      [] op = <<">">> -> PyBool(a.v > b.v)
      [] op = <<"<","=">> -> PyBool(a.v <= b.v)
      [] op = <<">","=">> -> PyBool(a.v >= b.v)
      [] op = <<"=","=">> -> PyBool(a.v = b.v)
      [] op = <<"!","=">> -> PyBool(a.v # b.v)

\* the value of a parsed expression: operands left to right, and/or by short circuit
RECURSIVE EvalAst(_)
EvalAst(ast) ==
    CASE ast.op = <<"int">> -> PyInt(DecValue(ast.args[1]))
      [] ast.op = <<"bool">> -> PyBool(ast.args[1] = <<"T","r","u","e">>)
      [] ast.op = <<"name">> -> PyExc("NameError")
      [] ast.op = <<"call">> -> PyExc("NameError")
      [] ast.op \in {<<"n","o","t">>, <<"u","-">>, <<"u","+">>} ->
            LET a == EvalAst(ast.args[1])
            IN  IF a.t \in {"exc", "unmodelled"} THEN a
                ELSE IF ast.op = <<"n","o","t">> THEN PyBool(a.v = 0)
                ELSE IF ast.op = <<"u","-">> THEN PyInt(0 - a.v)
                ELSE PyInt(a.v)
      [] ast.op \in {<<"a","n","d">>, <<"o","r">>} ->
            LET a == EvalAst(ast.args[1])
            IN  IF a.t \in {"exc", "unmodelled"} THEN a
                ELSE IF (ast.op = <<"o","r">>) = (a.v # 0) THEN a
                ELSE EvalAst(ast.args[2])
      [] OTHER ->
            LET a == EvalAst(ast.args[1])
                b == EvalAst(ast.args[2])
            IN  IF a.t \in {"exc", "unmodelled"} THEN a
                ELSE IF b.t \in {"exc", "unmodelled"} THEN b
                ELSE Apply(ast.op, a, b)

\* eval(expr_code)
PyEval(expr_code) ==
    LET toks == Tokens(expr_code, 0)
        r == ParseLevel(toks, 1)
    IN  IF \E i \in 1..Len(toks) : toks[i].k = "unmodelled" THEN Unmodelled
        ELSE IF r.st = "unmodelled" THEN Unmodelled
        ELSE IF \E i \in 1..Len(toks) : toks[i].k = "bad" THEN PyExc("SyntaxError")
        ELSE IF r.st = "syntax" \/ r.rest # <<>> THEN PyExc("SyntaxError")
        ELSE EvalAst(r.ast)


(***************************************************************************)
(* The preprocessor object and its public operations as a state machine.   *)
(*                                                                         *)
(* Python's call stack is the sequence stack of frames, the innermost call *)
(* last.  A frame is a record whose field k names the method it runs       *)
(* ("process_code", "expand_macros", "preproc_eval_expr", "evaluate",      *)
(* "is_true") and whose field ph is the place in that method where it      *)
(* stands.  A call pushes a frame; a return pops it and leaves the         *)
(* returned value in ret; an exception that no handler catches empties the *)
(* stack and is left in exc.                                               *)
(***************************************************************************)
VARIABLES
    macros,     \* self.macros: the macro table, in insertion order
    cond,       \* self.__cond_mngr
    output,     \* self.__output, the global output
    log,        \* the kinds of the errors reported through log.err so far
    stack,      \* the call stack
    ret,        \* the value the last return handed back
    pc,         \* "idle": no call in progress, "run": a call in progress,
                \* "raised": the last call raised an exception to its caller
    exc,        \* the class of that exception
    call,       \* the public call in progress or last made: [op, arg]
    done,       \* the calls of the session that have returned, with their results
    todo,       \* the calls the caller has yet to make
    skipped,    \* history: an #include directive was read in a branch that is not ACTIVE
    beat        \* history: flips at every step, of the caller or of a call in progress

vars == <<macros, cond, output, log, stack, ret, pc, exc, call, done, todo, skipped, beat>>

\* the limit of exp_depth
ExpDepthLimit == 512

\* a call is in progress and has not returned to the caller
Running == pc = "run" /\ stack # <<>>

\* the frame of the innermost call
Top == stack[Len(stack)]

Popped == SubSeq(stack, 1, Len(stack) - 1)

\* the frame of a call expand_macros(code, exp_depth)
ExpFrame(code, exp_depth) ==
    [k |-> "expand_macros", ph |-> "enter", code |-> code, exp_depth |-> exp_depth,
     mi |-> 1, start |-> 0, end |-> 0, arg_vals |-> <<>>, full |-> <<>>]

\* the frame of a call __preproc_eval_expr(code) stands in its call of expand_macros
PreprocFrames(code) ==
    <<[k |-> "preproc_eval_expr", ph |-> "expand"], ExpFrame(eval_defined(macros, code), 0)>>

\* an exception leaves every frame: none of them has a handler for it
Raise(cls) ==
    /\ stack' = <<>>
    /\ pc' = "raised"
    /\ exc' = cls
    /\ ret' = <<>>

\* expand_macros, from its entry to the loop over the macros
ExpandEnter ==
    /\ Running
    /\ Top.k = "expand_macros"
    /\ Top.ph = "enter"
    /\ \E exp_code \in {IF Top.exp_depth = 0 THEN remove_line_escapes(Top.code, FALSE)
                        ELSE Top.code} :
          IF Top.exp_depth > ExpDepthLimit
          THEN /\ log' = log \cup {"depth limit"}
               /\ stack' = Popped
               /\ ret' = exp_code
          ELSE /\ stack' = [stack EXCEPT ![Len(stack)].code = exp_code,
                                         ![Len(stack)].ph = "scan"]
               /\ UNCHANGED <<log, ret>>
    /\ UNCHANGED <<macros, cond, output, pc, exc, call, done, todo, skipped>>
    /\ beat' = ~beat

\* the text a reference without arguments, or with none found, expands to, is
\* handed to the recursive call; re.error leaves expand_macros as an exception
ExpandBodyCall(frame, exp_macro) ==
    IF exp_macro.st = "ok"
    THEN /\ stack' = Append([stack EXCEPT ![Len(stack)] = [frame EXCEPT !.ph = "body"]],
                            ExpFrame(exp_macro.text, frame.exp_depth + 1))
         /\ UNCHANGED <<ret, pc, exc>>
    ELSE Raise(IF exp_macro.st = "error" THEN "re.error" ELSE "unmodelled")

\* a reference with arguments: the first argument is handed to the recursive
\* call, or expand_args is called with no values when there is none
ExpandArgsCall(frame, macro) ==
    /\ log' = IF Len(frame.arg_vals) < Len(macro.args)
              THEN log \cup {"missing arguments"} ELSE log
    /\ IF frame.arg_vals # <<>>
       THEN /\ stack' = Append([stack EXCEPT ![Len(stack)] = [frame EXCEPT !.ph = "args"]],
                               ExpFrame(frame.arg_vals[1], frame.exp_depth + 1))
            /\ UNCHANGED <<ret, pc, exc>>
       ELSE ExpandBodyCall(frame, expand_args(macro, TRUE, <<>>, <<>>))

\* the body of the while loop of expand_macros for the reference of macro at
\* macro_start_pos, up to the first recursive call
ExpandRef(macro, macro_start_pos) ==
    IF macro.args # <<>>
    THEN \E enc \in {get_enclosed_subst_pos(Top.code,
                                            macro_start_pos + Len(macro.identifier))} :
            ExpandArgsCall(
                [Top EXCEPT !.start = macro_start_pos,
                            !.end = IF enc[1] >= 0 THEN enc[2] + 1
                                    ELSE macro_start_pos + Len(macro.identifier),
                            !.arg_vals = IF enc[1] >= 0
                                         THEN extract_macro_ref_args(
                                                  Sub(Top.code, enc[1] + 1, enc[2]))
                                         ELSE <<>>,
                            !.full = <<>>],
                macro)
    ELSE /\ ExpandBodyCall([Top EXCEPT !.start = macro_start_pos,
                                       !.end = macro_start_pos + Len(macro.identifier)],
                           expand_args(macro, FALSE, <<>>, <<>>))
         /\ UNCHANGED log

\* expand_macros at the head of its loops: the next reference of macro mi outside
\* comments and strings, or the next macro, or the return after the last one
ExpandScan ==
    /\ Running
    /\ Top.k = "expand_macros"
    /\ Top.ph = "scan"
    /\ IF Top.mi > Len(macros)
       THEN /\ stack' = Popped
            /\ ret' = Top.code
            /\ UNCHANGED <<log, pc, exc>>
       ELSE \E macro_start_pos \in {get_macro_ident_pos(Top.code,
                                                        macros[Top.mi].identifier,
                                                        macros[Top.mi].args # <<>>)} :
               IF /\ macro_start_pos >= 0
                  /\ ~is_in_comment(Top.code, macro_start_pos)
                  /\ ~is_in_string(Top.code, macro_start_pos)
               THEN ExpandRef(macros[Top.mi], macro_start_pos)
               ELSE /\ stack' = [stack EXCEPT ![Len(stack)].mi = Top.mi + 1]
                    /\ UNCHANGED <<log, ret, pc, exc>>
    /\ UNCHANGED <<macros, cond, output, call, done, todo, skipped>>
    /\ beat' = ~beat

\* expand_macros with one more argument fully expanded: the next argument, or
\* expand_args and the recursive expansion of its result
ExpandArg ==
    /\ Running
    /\ Top.k = "expand_macros"
    /\ Top.ph = "args"
    /\ LET full == Append(Top.full, ret)
           frame == [Top EXCEPT !.full = full]
       IN  IF Len(full) < Len(Top.arg_vals)
           THEN /\ stack' = Append([stack EXCEPT ![Len(stack)] = frame],
                                   ExpFrame(Top.arg_vals[Len(full) + 1], Top.exp_depth + 1))
                /\ UNCHANGED <<ret, pc, exc>>
           ELSE ExpandBodyCall(frame, expand_args(macros[Top.mi], TRUE, Top.arg_vals, full))
    /\ UNCHANGED <<macros, cond, output, log, call, done, todo, skipped>>
    /\ beat' = ~beat

\* expand_macros with the expanded macro body: it replaces the reference, and the
\* same macro is looked up again
ExpandInsert ==
    /\ Running
    /\ Top.k = "expand_macros"
    /\ Top.ph = "body"
    /\ stack' = [stack EXCEPT
                   ![Len(stack)].code = insert_expanded_macro(Top.code, Top.start, Top.end, ret),
                   ![Len(stack)].ph = "scan"]
    /\ UNCHANGED <<macros, cond, output, log, ret, pc, exc, call, done, todo, skipped>>
    /\ beat' = ~beat

\* __preproc_eval_expr after its call of expand_macros
PreprocReturn ==
    /\ Running
    /\ Top.k = "preproc_eval_expr"
    /\ LET joined == remove_line_escapes(ret, FALSE)
           no_cmnt == remove_comments(joined, FALSE, FALSE)
           no_suffix == remove_num_type_suffix(no_cmnt)
       IN  ret' = remove_empty_lines(eval_defined(macros, no_suffix))
    /\ stack' = Popped
    /\ UNCHANGED <<macros, cond, output, log, pc, exc, call, done, todo, skipped>>
    /\ beat' = ~beat

\* the frames of a call evaluate(expr_code), which stands in __preproc_eval_expr
EvaluateFrames(expr_code) ==
    <<[k |-> "evaluate", ph |-> "preproc"]>> \o PreprocFrames(expr_code)

\* the exceptions of eval that evaluate catches
Caught == {"SyntaxError", "NameError", "TypeError", "ZeroDivisionError"}

\* the text evaluate hands to eval; the result of its re.sub on "!" is dropped
EvalText(expr_code) ==
    LET ops == Replace(Replace(Replace(expr_code, <<"&","&">>, <<" ","a","n","d"," ">>),
                               <<"|","|">>, <<" ","o","r"," ">>),
                       <<"/">>, <<"/","/">>)
    IN  Replace(ops, <<"i","m","p","o","r","t">>, <<>>)

\* evaluate after __preproc_eval_expr: eval, and False for the exceptions caught
EvaluateReturn ==
    /\ Running
    /\ Top.k = "evaluate"
    /\ \E v \in {PyEval(EvalText(ret))} :
          IF v.t = "unmodelled" THEN Raise("unmodelled")
          ELSE IF v.t = "exc" /\ v.v \notin Caught THEN Raise(v.v)
          ELSE /\ ret' = IF v.t = "exc" THEN PyBool(FALSE) ELSE v
               /\ stack' = Popped
               /\ UNCHANGED <<pc, exc>>
    /\ UNCHANGED <<macros, cond, output, log, call, done, todo, skipped>>
    /\ beat' = ~beat

\* the frames of a call is_true(expr_code)
IsTrueFrames(expr_code) ==
    <<[k |-> "is_true", ph |-> "preproc"]>> \o PreprocFrames(expr_code)

\* is_true after __preproc_eval_expr: its call of evaluate
IsTrueEvaluate ==
    /\ Running
    /\ Top.k = "is_true"
    /\ Top.ph = "preproc"
    /\ stack' = [stack EXCEPT ![Len(stack)].ph = "evaluate"] \o EvaluateFrames(ret)
    /\ UNCHANGED <<macros, cond, output, log, ret, pc, exc, call, done, todo, skipped>>
    /\ beat' = ~beat

\* is_true after evaluate: bool(state)
IsTrueReturn ==
    /\ Running
    /\ Top.k = "is_true"
    /\ Top.ph = "evaluate"
    /\ ret' = PyBool(ret.v # 0)
    /\ stack' = Popped
    /\ UNCHANGED <<macros, cond, output, log, pc, exc, call, done, todo, skipped>>
    /\ beat' = ~beat

(***************************************************************************)
(* The files #include can read: the lines of each file that exists.  No    *)
(* file includes itself, directly or through another.                      *)
(***************************************************************************)
\* "o" opens an #if it does not close, "c" closes one it did not open
Files ==
    (<<"o">> :> <<<<"#","i","f"," ","1">>, <<"#","d","e","f","i","n","e"," ","A"," ","1">>>>)
    @@ (<<"c">> :> <<<<"#","e","n","d","i","f">>, <<"#","d","e","f","i","n","e"," ","B"," ","2">>>>)
    @@ (<<"d">> :> <<<<"#","d","e","f","i","n","e"," ","A"," ","1">>, <<"#","u","n","d","e","f"," ","B">>>>)
    @@ (<<"e">> :> <<>>)

\* the frame of a call process_code(code, global_output, full_local_output), the
\* code given as its lines; the parts are those yield_code_parts will yield
ProcFrame(lines, global_output, full_local_output) ==
    [k |-> "process_code", ph |-> "next",
     parts |-> yield_code_parts(replace_tabs(lines), 1), idx |-> 1,
     local_output |-> NewOutput, orig_branch_depth |-> branch_depth(cond),
     global_output |-> global_output, full_local_output |-> full_local_output]

\* the part the loop of process_code stands at
Part == Top.parts[Top.idx]

\* the errors yield_code_parts reports when it yields the part
PartLog == IF Part.unterminated THEN {"unterminated comment"} ELSE {}

\* the end of an iteration of the loop of process_code: the part goes to the
\* global output when global_output is set and to the local output
Emitted(code_part, code_type) ==
    [stack EXCEPT ![Len(stack)].local_output =
                     add_code_part(Top.local_output, code_part, code_type),
                  ![Len(stack)].idx = Top.idx + 1,
                  ![Len(stack)].ph = "next"]

\* EmittedGlobal with a fault: the part goes to the global output in every call
EmittedGlobal_always(code_part, code_type) == add_code_part(output, code_part, code_type)

EmittedGlobal(code_part, code_type) ==
    IF Top.global_output THEN add_code_part(output, code_part, code_type) ELSE output

AtPart(types) ==
    /\ Running
    /\ Top.k = "process_code"
    /\ Top.ph = "next"
    /\ Top.idx <= Len(Top.parts)
    /\ Part.type \in types

\* process_code at a comment or at empty lines
ProcOther ==
    /\ AtPart({COMMENT, SPACE})
    /\ log' = log \cup PartLog
    /\ stack' = Emitted(Part.text, Part.type)
    /\ output' = EmittedGlobal(Part.text, Part.type)
    /\ UNCHANGED <<macros, cond, ret, pc, exc, call, done, todo, skipped>>
    /\ beat' = ~beat

\* process_code at code: expand_macros in an active branch, the part as it is
\* otherwise
ProcCode ==
    /\ AtPart({CODE})
    /\ log' = log \cup PartLog
    /\ IF branch_active(cond)
       THEN /\ stack' = Append([stack EXCEPT ![Len(stack)].ph = "expand"],
                               ExpFrame(Part.text, 0))
            /\ UNCHANGED output
       ELSE /\ stack' = Emitted(Part.text, CODE)
            /\ output' = EmittedGlobal(Part.text, CODE)
    /\ UNCHANGED <<macros, cond, ret, pc, exc, call, done, todo, skipped>>
    /\ beat' = ~beat

\* process_code at a directive that one of the conditional patterns matches:
\* __process_if and __process_elif call is_true where the source does
ProcConditional ==
    /\ AtPart({DIRECTIVE})
    /\ \E m \in {ConditionalMatch(remove_line_escapes(Part.text, FALSE))} :
          /\ m.kind # "none"
          /\ log' = log \cup PartLog
                        \cup (IF m.kind = "endif" /\ ExitIfFails(cond)
                              THEN {"unexpected #endif"} ELSE {})
          /\ IF \/ m.kind = "if" /\ branch_active(cond)
                \/ m.kind = "elif" /\ branch_search_active(cond)
             THEN /\ stack' = [stack EXCEPT ![Len(stack)].ph = m.kind]
                              \o IsTrueFrames(m.expr)
                  /\ UNCHANGED <<cond, output>>
             ELSE /\ cond' = CASE m.kind = "if" -> enter_if(cond, FALSE)
                               [] m.kind = "elif" -> enter_elif(cond, FALSE)
                               [] m.kind = "else" -> enter_elif(cond, TRUE)
                               [] m.kind = "endif" -> exit_if(cond)
                               [] m.kind = "ifdef" -> enter_if(cond, IsDefined(macros, m.expr))
                               [] m.kind = "ifndef" ->
                                     enter_if(cond, ~IsDefined(macros, m.expr))
                  /\ stack' = Emitted(Part.text, DIRECTIVE)
                  /\ output' = EmittedGlobal(Part.text, DIRECTIVE)
    /\ UNCHANGED <<macros, ret, pc, exc, call, done, todo, skipped>>
    /\ beat' = ~beat

\* ProcHandler with a fault: the code of an included file is not processed
ProcHandler_no_file(kind, joined) ==
    /\ \E def \in {IF kind = "define"
                   THEN process_define(macros, IdentMatch(joined, KwDefine), Part.text)
                   ELSE [macros |-> macros, err |-> FALSE]} :
          /\ macros' = IF kind = "undef"
                       THEN process_undef(macros, IdentMatch(joined, KwUndef))
                       ELSE def.macros
          /\ log' = log \cup PartLog
                        \cup (IF def.err THEN {"macro body"} ELSE {})
                        \cup (IF kind = "include" /\ IncludeMatch(joined).file \notin DOMAIN Files
                              THEN {"file not found"} ELSE {})
    /\ \E file_code \in {<<>>} :
          IF file_code # <<>>
          THEN /\ stack' = Append([stack EXCEPT ![Len(stack)].ph = "include"],
                                  ProcFrame(file_code, FALSE, FALSE))
               /\ UNCHANGED output
          ELSE /\ stack' = Emitted(Part.text, DIRECTIVE)
               /\ output' = EmittedGlobal(Part.text, DIRECTIVE)

\* the handler of the standard directive of the given kind ("none": no pattern
\* matched, or the branch is not active), the directive with its line escapes
\* removed being joined
ProcHandler(kind, joined) ==
    /\ \E def \in {IF kind = "define"
                   THEN process_define(macros, IdentMatch(joined, KwDefine), Part.text)
                   ELSE [macros |-> macros, err |-> FALSE]} :
          /\ macros' = IF kind = "undef"
                       THEN process_undef(macros, IdentMatch(joined, KwUndef))
                       ELSE def.macros
          /\ log' = log \cup PartLog
                        \cup (IF def.err THEN {"macro body"} ELSE {})
                        \cup (IF kind = "include" /\ IncludeMatch(joined).file \notin DOMAIN Files
                              THEN {"file not found"} ELSE {})
    /\ \E file_code \in {IF kind = "include" /\ IncludeMatch(joined).file \in DOMAIN Files
                         THEN Files[IncludeMatch(joined).file] ELSE <<>>} :
          IF file_code # <<>>
          THEN /\ stack' = Append([stack EXCEPT ![Len(stack)].ph = "include"],
                                  ProcFrame(file_code, FALSE, FALSE))
               /\ UNCHANGED output
          ELSE /\ stack' = Emitted(Part.text, DIRECTIVE)
               /\ output' = EmittedGlobal(Part.text, DIRECTIVE)

\* process_code at a directive that no conditional pattern matches: the standard
\* patterns are tried in an active branch only
ProcStandard ==
    /\ AtPart({DIRECTIVE})
    /\ \E joined \in {remove_line_escapes(Part.text, FALSE)} :
          /\ ConditionalMatch(joined).kind = "none"
          /\ \E std \in {StandardMatch(joined)} :
                /\ skipped' = (skipped \/ (~branch_active(cond) /\ std = "include"))
                /\ ProcHandler(IF branch_active(cond) THEN std ELSE "none", joined)
    /\ UNCHANGED <<cond, ret, pc, exc, call, done, todo>>
    /\ beat' = ~beat

\* process_code after a call it made returned: is_true for #if and #elif,
\* process_file for #include, expand_macros for code
ProcResume ==
    /\ Running
    /\ Top.k = "process_code"
    /\ Top.ph \in {"if", "elif", "include", "expand"}
    /\ cond' = CASE Top.ph = "if" -> enter_if(cond, ret.v = 1)
                 [] Top.ph = "elif" -> enter_elif(cond, ret.v = 1)
                 [] OTHER -> cond
    /\ LET code_part == IF Top.ph = "expand" THEN ret ELSE Part.text
       IN  /\ stack' = Emitted(code_part, Part.type)
           /\ output' = EmittedGlobal(code_part, Part.type)
    /\ UNCHANGED <<macros, log, ret, pc, exc, call, done, todo, skipped>>
    /\ beat' = ~beat

\* process_code after its loop
ProcReturn ==
    /\ Running
    /\ Top.k = "process_code"
    /\ Top.ph = "next"
    /\ Top.idx > Len(Top.parts)
    /\ log' = IF branch_depth(cond) # Top.orig_branch_depth
              THEN log \cup {"unterminated #if"} ELSE log
    /\ ret' = IF Top.full_local_output THEN Top.local_output.code_all
              ELSE Top.local_output.code
    /\ stack' = Popped
    /\ UNCHANGED <<macros, cond, output, pc, exc, call, done, todo, skipped>>
    /\ beat' = ~beat

(***************************************************************************)
(* The caller.  A session is the sequence of public calls the caller makes *)
(* on one preprocessor object, each made when the one before has returned. *)
(***************************************************************************)
ProcessCode(lines) ==
    [op |-> "process_code", arg |-> lines, global_output |-> TRUE,
     full_local_output |-> FALSE]

ProcessCodeFull(lines) ==
    [op |-> "process_code", arg |-> lines, global_output |-> TRUE,
     full_local_output |-> TRUE]

\* process_code(code, global_output=False)
ProcessCodeLocal(lines) ==
    [op |-> "process_code", arg |-> lines, global_output |-> FALSE,
     full_local_output |-> FALSE]

Evaluate(expr_code) ==
    [op |-> "evaluate", arg |-> expr_code, global_output |-> FALSE,
     full_local_output |-> FALSE]

IsTrue(expr_code) ==
    [op |-> "is_true", arg |-> expr_code, global_output |-> FALSE,
     full_local_output |-> FALSE]

ExpandMacros(code) ==
    [op |-> "expand_macros", arg |-> code, global_output |-> FALSE,
     full_local_output |-> FALSE]

Reset == [op |-> "reset", arg |-> <<>>, global_output |-> FALSE, full_local_output |-> FALSE]

\* the sequences of 1 to n elements of S
SeqsUpTo(S, n) == UNION {[1..k -> S] : k \in 1..n}

\* the longest input of a family, in lines
MaxLines == 3

\* the longest text handed to expand_macros, in pieces
MaxPieces == 3

LnIf0 == <<"#","i","f"," ","0">>

LnIf1 == <<"#","i","f"," ","1">>

LnIfParen == <<"#","i","f","(","1",")">>

LnIfdefX == <<"#","i","f","d","e","f"," ","X">>

LnElse == <<"#","e","l","s","e">>

LnEndif == <<"#","e","n","d","i","f">>

LnX == <<"X">>

LnY == <<"Y">>

\* inputs of conditional directives around one line of code
CondLines == {LnIf0, LnIf1, LnIfParen, LnIfdefX, LnElse, LnEndif, LnX}

CondSessions ==
    {<<ProcessCode(p)>> : p \in SeqsUpTo(CondLines, MaxLines)}
    \cup {<<ProcessCode(<<LnIf0, LnX, LnElse, LnY, LnEndif>>)>>}

LnCmnt == <<"/","/"," ","c">>

LnBlank == <<>>

LnCode == <<"i","n","t"," ","x",";">>

LnTabs == <<"\t","i","n","t"," ","y",";"," "," ">>

LnCont == <<"a"," ","\\">>

\* inputs without a directive: comments, empty lines, code, a continued line
TextLines == {LnCmnt, LnBlank, LnCode, LnTabs, LnCont}

TextSessions == {<<ProcessCode(p)>> : p \in SeqsUpTo(TextLines, MaxLines)}

LnDefX1 == <<"#","d","e","f","i","n","e"," ","X"," ","1">>

LnDefXX == <<"#","d","e","f","i","n","e"," ","X"," ","X">>

LnDefAB == <<"#","d","e","f","i","n","e"," ","A"," ","B">>

LnDefBA == <<"#","d","e","f","i","n","e"," ","B"," ","A">>

LnDefYX == <<"#","d","e","f","i","n","e"," ","Y"," ","X">>

LnDefCAT == <<"#","d","e","f","i","n","e"," ","C","A","T","(","a",",","b",")"," ","a","#","#","b">>

LnDefSTR == <<"#","d","e","f","i","n","e"," ","S","T","R","(","x",")"," ","#","x">>

LnDefF == <<"#","d","e","f","i","n","e"," ","F","(","a",")"," ","a">>

\* a macro and a line of code that refers to it, in one input; the last three
\* hold a macro that refers to itself, directly or through another
RefSessions ==
    {<<ProcessCodeFull(<<LnDefX1, <<"i","n","t"," ","v"," ","="," ","X",";">>>>)>>,
     <<ProcessCodeFull(<<LnDefX1, LnDefYX, <<"Y"," ","+"," ","X">>>>)>>,
     <<ProcessCodeFull(<<LnDefCAT, <<"C","A","T","(","f","o","o",",","b","a","r",")">>>>)>>,
     <<ProcessCodeFull(<<LnDefSTR, <<"S","T","R","(","h","e","l","l","o"," ","w","o","r","l","d",")">>>>)>>,
     <<ProcessCodeFull(<<LnDefF, <<"F","(","F","(","1",")",")"," ","F","(",")">>>>)>>,
     <<ProcessCode(<<LnDefX1, <<"#","i","f"," ","X"," ","<","<"," ","-","1">>, LnEndif>>)>>,
     <<ProcessCode(<<LnDefXX, LnX>>)>>,
     <<ProcessCode(<<LnDefXX>>), ExpandMacros(LnX)>>,
     <<ProcessCode(<<LnDefAB, LnDefBA, <<"A">>>>)>>}

\* the pieces of the texts in which the object-like macro X is looked up: a
\* reference, a string, a comment, a longer word, a comment to the end of the line
Pieces == {<<"X">>, <<"\"","X","\"">>, <<"/","*"," ","X"," ","*","/">>, <<"a","X">>, <<"/","/"," ","X">>}

PieceText(pieces) == Join(pieces, <<" ">>)

ObjectSessions ==
    {<<ProcessCode(<<LnDefX1>>), ExpandMacros(PieceText(q))>> :
        q \in SeqsUpTo(Pieces, MaxPieces)}

\* the argument texts of the references to CAT and STR
ArgTexts == {<<"f","o","o">>, <<"b","a","r">>, <<"b">>, <<"x"," ","y">>, <<"h","e","l","l","o"," ","w","o","r","l","d">>, <<"\\","q">>}

CatRef(u, v) == <<"C","A","T","(">> \o u \o <<",">> \o v \o <<")">>

StrRef(t) == <<"S","T","R","(">> \o t \o <<")">>

ArgSessions ==
    {<<ProcessCode(<<LnDefCAT>>), ExpandMacros(CatRef(u, v))>> : u, v \in ArgTexts}
    \cup {<<ProcessCode(<<LnDefSTR>>), ExpandMacros(StrRef(t))>> : t \in ArgTexts}

\* the expressions handed to evaluate and is_true
Operands == {<<"0">>, <<"1">>, <<"-","1">>, <<"X">>, <<"Y">>}

Operators == {<<" ","+"," ">>, <<" ","/"," ">>, <<" ","%"," ">>, <<" ","<","<"," ">>, <<" ",">"," ">>, <<" ","=","="," ">>, <<" ","&","&"," ">>, <<" ","|","|"," ">>}

Exprs ==
    {a \o op \o b : a, b \in Operands, op \in Operators}
    \cup {<<>>, <<"1"," ","+">>, <<"!","1">>, <<"d","e","f","i","n","e","d","(","X",")">>, <<"(","X"," ","+"," ","1",")"," ","*"," ","2","U">>}

ExprSessions ==
    {<<ProcessCode(<<LnDefX1>>), Evaluate(e)>> : e \in Exprs}
    \cup {<<ProcessCode(<<LnDefX1>>), IsTrue(e)>> : e \in Exprs}

LnIncl(file) == <<"#","i","n","c","l","u","d","e"," ","\"">> \o file \o <<"\"">>

\* the lines of an input with the lines of each file it includes in the place of
\* the #include directive
RECURSIVE Inlined(_)
Inlined(lines) ==
    IF lines = <<>> THEN <<>>
    ELSE LET m == IncludeMatch(Head(lines))
         IN  (IF m.matched /\ m.file \in DOMAIN Files THEN Files[m.file]
              ELSE <<Head(lines)>>) \o Inlined(Tail(lines))

\* inputs that include a file, after nothing, in an active branch, in an
\* inactive one or after a definition, and before nothing or an #endif
InclInputs ==
    {pre \o <<LnIncl(f)>> \o post :
        pre \in {<<>>, <<LnIf1>>, <<LnIf0>>, <<<<"#","d","e","f","i","n","e"," ","B"," ","1">>>>},
        f \in DOMAIN Files,
        post \in {<<>>, <<LnEndif>>}}

\* an input with an #include, and after a reset the same input with the file inlined
InclSessions == {<<ProcessCode(p), Reset, ProcessCode(Inlined(p))>> : p \in InclInputs}

\* inputs processed without the global output: code with a comment and empty
\* lines, a definition and a reference, a conditional left open, included files
LocalInputs ==
    {<<LnCode, LnBlank, LnCmnt, LnTabs>>,
     <<LnDefX1, LnX>>,
     <<LnIf1, LnX>>,
     <<LnX, LnIncl(<<"d">>), LnY>>,
     <<LnIncl(<<"o">>), LnX, LnEndif>>}

\* an input processed without the global output, after an input processed with
\* it and before, after a reset, the same input processed with it
LocalSessions ==
    {<<ProcessCode(<<LnCode, LnBlank>>), ProcessCodeLocal(b), Reset, ProcessCode(b)>> :
        b \in LocalInputs}

LnUndefX == <<"#","u","n","d","e","f"," ","X">>

LnPragma == <<"#","p","r","a","g","m","a"," ","o","n","c","e">>

\* directives of every group and one that no pattern matches
DispatchLines == {LnDefAB, LnUndefX, LnIncl(<<"d">>), LnPragma, LnElse, LnIf1, LnEndif}

\* the directives after a definition of X and #if 0
DispatchSessions ==
    {<<ProcessCode(<<LnDefX1, LnIf0>> \o p)>> : p \in SeqsUpTo(DispatchLines, MaxLines)}

\* the pieces of the bodies of the macro SQ(x): the parameter, another word,
\* an operator, a space
BodyPieces == {<<"x">>, <<"y">>, <<"*">>, <<" ">>}

\* the body made of the pieces
BodyText(pieces) == Join(pieces, <<>>)

LnDefSQ(body) == <<"#","d","e","f","i","n","e"," ","S","Q","(","x",")"," ">> \o body

RefSQ == <<"S","Q","(","3",")">>

\* a definition of SQ(x) and a reference to it
ParamSessions ==
    {<<ProcessCode(<<LnDefSQ(BodyText(q))>>), ExpandMacros(RefSQ)>> :
        q \in SeqsUpTo(BodyPieces, MaxPieces)}

\* the text with the value in the place of every word that is the name: a word
\* is a longest run of word characters
RECURSIVE WordSubst(_, _, _)
WordSubst(s, name, val) ==
    IF s = <<>> THEN <<>>
    ELSE IF Head(s) \in WordChar
         THEN (IF Sub(s, 0, RunLen(s, 0, WordChar)) = name THEN val
               ELSE Sub(s, 0, RunLen(s, 0, WordChar)))
              \o WordSubst(From(s, RunLen(s, 0, WordChar)), name, val)
         ELSE <<Head(s)>> \o WordSubst(Tail(s), name, val)

LnDefX0 == <<"#","d","e","f","i","n","e"," ","X"," ","0">>

LnDefY1 == <<"#","d","e","f","i","n","e"," ","Y"," ","1">>

\* the definitions before an expression with defined: of X, as 1 and as 0, and
\* of another macro
DefinedTables == {LnDefX1, LnDefX0, LnDefY1}

\* defined(X) and defined X, alone and in parentheses
DefinedExprs ==
    {<<"d","e","f","i","n","e","d","(","X",")">>,
     <<"d","e","f","i","n","e","d"," ","X">>,
     <<"(","d","e","f","i","n","e","d","(","X",")",")">>,
     <<"(","d","e","f","i","n","e","d"," ","X",")">>,
     <<"("," ","d","e","f","i","n","e","d","(","X",")"," ",")">>}

DefinedSessions ==
    {<<ProcessCode(<<d>>), IsTrue(e)>> : d \in DefinedTables, e \in DefinedExprs}

\* the expressions a comment is put after
CommentedExprs == {<<"1">>, <<"0">>, <<"X">>, <<"X"," ","+"," ","1">>}

\* a comment with its end and a comment to the end of the line
ExprComments == {<<" ","/","*"," ","x"," ","*","/">>, <<" ","/","/"," ","x">>}

LnIf(expr) == <<"#","i","f"," ">> \o expr

\* an expression evaluated alone and with a comment after it, by evaluate, by
\* is_true and, after a reset, as the condition of an #if
CommentSessions ==
    {<<ProcessCode(<<LnDefX1>>), Evaluate(e), Evaluate(e \o c), IsTrue(e), IsTrue(e \o c)>> :
        e \in CommentedExprs, c \in ExprComments}
    \cup {<<ProcessCode(<<LnIf(e)>>), Reset, ProcessCode(<<LnIf(e \o c)>>)>> :
             e \in CommentedExprs, c \in ExprComments}

\* the identifiers of the macros defined: two that stand in no text before
\* them, and three that are part of the keyword define
DefinedIdents == {<<"X">>, <<"E">>, <<"e">>, <<"d">>, <<"f","i","n","e">>}

\* no parameter list, and the list of the parameter a
DefinedParams == {<<>>, <<"(","a",")">>}

DefinedBodies == {<<"1">>, <<"a"," ","+"," ","b">>, <<" ","2"," ">>}

LnDefine(ident, params, body) ==
    <<"#","d","e","f","i","n","e"," ">> \o ident \o params \o <<" ">> \o body

\* one #define directive
DefineSessions ==
    {<<ProcessCode(<<LnDefine(ident, params, body)>>)>> :
        ident \in DefinedIdents, params \in DefinedParams, body \in DefinedBodies}

Sessions ==
    CondSessions \cup TextSessions \cup RefSessions \cup ObjectSessions
    \cup ArgSessions \cup ExprSessions \cup InclSessions \cup LocalSessions
    \cup DispatchSessions \cup ParamSessions \cup DefinedSessions \cup CommentSessions
    \cup DefineSessions

\* the next call the caller makes
Calling(op) ==
    /\ pc = "idle"
    /\ todo # <<>>
    /\ Head(todo).op = op
    /\ call' = Head(todo)
    /\ todo' = Tail(todo)
    /\ pc' = "run"
    /\ beat' = ~beat

CallProcessCode ==
    /\ Calling("process_code")
    /\ stack' = <<ProcFrame(Head(todo).arg, Head(todo).global_output,
                            Head(todo).full_local_output)>>
    /\ UNCHANGED <<macros, cond, output, log, ret, exc, done, skipped>>

CallEvaluate ==
    /\ Calling("evaluate")
    /\ stack' = EvaluateFrames(Head(todo).arg)
    /\ UNCHANGED <<macros, cond, output, log, ret, exc, done, skipped>>

CallIsTrue ==
    /\ Calling("is_true")
    /\ stack' = IsTrueFrames(Head(todo).arg)
    /\ UNCHANGED <<macros, cond, output, log, ret, exc, done, skipped>>

CallExpandMacros ==
    /\ Calling("expand_macros")
    /\ stack' = <<ExpFrame(Head(todo).arg, 0)>>
    /\ UNCHANGED <<macros, cond, output, log, ret, exc, done, skipped>>

\* reset: the output, the condition manager and the macro table are as new
CallReset ==
    /\ Calling("reset")
    /\ output' = NewOutput
    /\ cond' = NewCondMngr
    /\ macros' = <<>>
    /\ stack' = <<>>
    /\ ret' = <<>>
    /\ UNCHANGED <<log, exc, done, skipped>>

\* the outermost frame has returned: the caller has the result, and the object
\* is as the call left it
Return ==
    /\ pc = "run"
    /\ stack = <<>>
    /\ pc' = "idle"
    /\ done' = Append(done, [call |-> call, ret |-> ret, macros |-> macros, cond |-> cond,
                             output |-> output, log |-> log])
    /\ UNCHANGED <<macros, cond, output, log, stack, ret, exc, call, todo, skipped>>
    /\ beat' = ~beat

\* the object after PyCpp.__init__, and no call made
Fresh ==
    /\ macros = <<>>
    /\ cond = NewCondMngr
    /\ output = NewOutput
    /\ log = {}
    /\ stack = <<>>
    /\ ret = <<>>
    /\ pc = "idle"
    /\ exc = ""
    /\ call = Reset
    /\ done = <<>>
    /\ skipped = FALSE
    /\ beat = FALSE

Init ==
    /\ todo \in Sessions
    /\ Fresh

Next ==
    \/ CallProcessCode
    \/ CallEvaluate
    \/ CallIsTrue
    \/ CallExpandMacros
    \/ CallReset
    \/ ProcOther
    \/ ProcCode
    \/ ProcConditional
    \/ ProcStandard
    \/ ProcResume
    \/ ProcReturn
    \/ ExpandEnter
    \/ ExpandScan
    \/ ExpandArg
    \/ ExpandInsert
    \/ PreprocReturn
    \/ EvaluateReturn
    \/ IsTrueEvaluate
    \/ IsTrueReturn
    \/ Return

Spec == Init /\ [][Next]_vars

\* a call in progress can always take a step, and every step flips beat
Beat == pc = "run" /\ beat' = ~beat

\* the interpreter keeps running the call in progress
FairSpec == Spec /\ WF_beat(Beat)

\* every input of the sessions stays within the parts of Python's re and eval
\* that the model covers
Modelled == exc # "unmodelled"


(***************************************************************************)
(* The claims of the specification, each stated over the calls of a        *)
(* session: done[i] is the i-th call with what it returned and the object  *)
(* as it left it.                                                          *)
(***************************************************************************)
\* the i-th call of the session has returned and was process_code(lines)
Processed(i, lines) ==
    /\ Len(done) >= i
    /\ done[i].call.op = "process_code"
    /\ done[i].call.arg = lines

\* C1: a CODE segment that process_code reads while the branch state is not
\* ACTIVE is not written to the trimmed output code, local or global, and is
\* written to the verbatim output code_all
C1_InactiveCodeSuppressed ==
    [][AtPart({CODE}) /\ ~branch_active(cond)
        => /\ output'.code = output.code
           /\ stack'[Len(stack)].local_output.code = Top.local_output.code
           /\ stack'[Len(stack)].local_output.code_all
                 = Top.local_output.code_all \o Part.text \o <<"\n">>]_vars

\* the input of C1's example has been processed, and the trimmed output holds
\* the line X of the branch of #if 0 before the line Y of the #else branch
C1_InactiveCodeEmitted ==
    /\ Processed(1, <<LnIf0, LnX, LnElse, LnY, LnEndif>>)
    /\ done[1].ret = <<"X","\n","Y","\n">>
    /\ done[1].output.code = done[1].ret

\* the name of the directive a line holds: the word after its "#", or the empty
\* text for a line that is no directive
DirectiveName(line) ==
    IF LStrip(line) = <<>> \/ Head(LStrip(line)) # "#" THEN <<>>
    ELSE Sub(LStrip(Tail(LStrip(line))), 0, RunLen(LStrip(Tail(LStrip(line))), 0, WordChar))

\* the depth of conditionals after the lines, counted from depth: one more for
\* each #if, #ifdef or #ifndef line, one less for each #endif line, and -1 once
\* an #endif line stands at depth 0
RECURSIVE NestingAfter(_, _)
NestingAfter(lines, depth) ==
    IF lines = <<>> \/ depth < 0 THEN depth
    ELSE NestingAfter(Tail(lines),
                      IF DirectiveName(Head(lines)) \in {KwIf, KwIfdef, KwIfndef} THEN depth + 1
                      ELSE IF DirectiveName(Head(lines)) = KwEndif THEN depth - 1
                      ELSE depth)

\* the #if, #ifdef, #ifndef and #endif lines of the input are properly nested
ProperlyNested(lines) == NestingAfter(lines, 0) = 0

NestingErrors == {"unterminated #if", "unexpected #endif"}

\* C2: process_code of an input whose #if, #ifdef, #ifndef and #endif lines are
\* properly nested (and that includes no file) leaves the condition depth it
\* found at entry and reports neither an unterminated #if nor an unexpected #endif
C2_NestedInputBalanced ==
    (/\ done # <<>>
     /\ done[1].call.op = "process_code"
     /\ ProperlyNested(done[1].call.arg)
     /\ \A k \in 1..Len(done[1].call.arg) :
            DirectiveName(done[1].call.arg[k]) # KwInclude)
        => /\ branch_depth(done[1].cond) = 0
           /\ done[1].log \cap NestingErrors = {}

\* the properly nested input #if(1) / X / #endif has been processed, and an
\* unexpected #endif was reported
C2_ParenIfNotPushed ==
    /\ Processed(1, <<LnIfParen, LnX, LnEndif>>)
    /\ ProperlyNested(done[1].call.arg)
    /\ "unexpected #endif" \in done[1].log

\* C3: a call in progress ends, by a return or by an exception, whatever macros
\* the table holds: expand_macros terminates
C3_ExpandTerminates == (pc = "run") ~> (pc # "run")

\* with #define X X in the table, expand_macros has reported the depth limit
\* for the reference X and enters the capped depth again
C3_CapHitAgain ==
    /\ Running
    /\ call = ExpandMacros(LnX)
    /\ "depth limit" \in log
    /\ Top.k = "expand_macros"
    /\ Top.ph = "enter"
    /\ Top.exp_depth = ExpDepthLimit + 1

\* the pieces with every reference to X that stands outside strings and comments
\* replaced by the body 1 of the macro; commented holds once a piece has
\* opened a comment to the end of the line
RECURSIVE Replaced(_, _)
Replaced(pieces, commented) ==
    IF pieces = <<>> THEN <<>>
    ELSE <<IF Head(pieces) = LnX /\ ~commented THEN <<"1">> ELSE Head(pieces)>>
         \o Replaced(Tail(pieces), commented \/ StartsWith(Head(pieces), <<"/", "/">>))

\* C4: after #define X 1, expand_macros replaces X by 1 at every whole-word
\* occurrence outside comments and string literals and leaves the occurrences
\* inside them intact, wherever the occurrences stand relative to each other
C4_ObjectMacroReplaced ==
    \A q \in SeqsUpTo(Pieces, MaxPieces) :
        (/\ Len(done) >= 2
         /\ done[1].call = ProcessCode(<<LnDefX1>>)
         /\ done[2].call = ExpandMacros(PieceText(q)))
            => done[2].ret = PieceText(Replaced(q, FALSE))

\* after #define X 1, expand_macros has returned the text "X" X as it was: the
\* reference after the string is not replaced
C4_RefAfterStringKept ==
    /\ Len(done) >= 2
    /\ done[1].call = ProcessCode(<<LnDefX1>>)
    /\ done[2].call = ExpandMacros(<<"\"","X","\""," ","X">>)
    /\ done[2].ret = <<"\"","X","\""," ","X">>

\* C5: with #define CAT(a,b) a##b, a reference CAT(u,v) expands to the text of
\* the first argument immediately followed by the text of the second
C5_PasteJoinsArguments ==
    \A u, v \in ArgTexts :
        (/\ Len(done) >= 2
         /\ done[1].call = ProcessCode(<<LnDefCAT>>)
         /\ done[2].call = ExpandMacros(CatRef(u, v)))
            => done[2].ret = u \o v

\* with #define CAT(a,b) a##b, expand_macros has returned foob for CAT(foo,bar)
C5_PasteLosesText ==
    /\ Len(done) >= 2
    /\ done[1].call = ProcessCode(<<LnDefCAT>>)
    /\ done[2].call = ExpandMacros(CatRef(<<"f","o","o">>, <<"b","a","r">>))
    /\ done[2].ret = <<"f","o","o","b">>

\* C6: with #define STR(x) #x, a reference STR(t) expands to exactly t wrapped
\* in double quotes, for every argument text t
C6_StringifyQuotesArgument ==
    \A t \in ArgTexts :
        (/\ Len(done) >= 2
         /\ done[1].call = ProcessCode(<<LnDefSTR>>)
         /\ done[2].call = ExpandMacros(StrRef(t)))
            => done[2].ret = <<"\"">> \o t \o <<"\"">>

\* with #define STR(x) #x, expand_macros has returned "x y y" for STR(x y): the
\* parameter name x inside the quoted argument was replaced again
C6_ArgumentRewritten ==
    /\ Len(done) >= 2
    /\ done[1].call = ProcessCode(<<LnDefSTR>>)
    /\ done[2].call = ExpandMacros(StrRef(<<"x"," ","y">>))
    /\ done[2].ret = <<"\"","x"," ","y"," ","y","\"">>

\* the lines, each followed by a line end, as one text
RECURSIVE Lines(_)
Lines(lines) ==
    IF lines = <<>> THEN <<>> ELSE Head(lines) \o <<"\n">> \o Lines(Tail(lines))

\* C7 as the specification states it: after process_code(input), code_all holds
\* every input line once, in input order, with only its tabs expanded (the
\* whitespace at the end of a line set aside), active code with macro references
\* included
C7_CodeAllVerbatim ==
    (done # <<>> /\ done[1].call.op = "process_code")
        => done[1].output.code_all
             = Lines([j \in 1..Len(done[1].call.arg) |->
                        RStrip(ReplaceTabsLine(done[1].call.arg[j]))])

\* the step of process_code(input) that ends the loop iteration of a segment
\* of the input
SegmentDone ==
    /\ Running
    /\ Len(stack) = 1
    /\ Top.k = "process_code"
    /\ Len(stack') = 1
    /\ stack'[1].idx = Top.idx + 1

\* C7, amended: the segments process_code reads are the input lines, in order,
\* with tabs expanded and trailing whitespace removed; process_code appends each
\* segment once to code_all, of the output it returns and, when it writes the
\* global output, of that, in input order and followed by a line end, as read
\* unless it is a CODE segment read in an ACTIVE branch, which it appends as
\* expand_macros returned it; and nothing else is written to code_all
C7_CodeAllBySegment ==
    [][/\ (Running /\ stack[1].k = "process_code")
            => Join([j \in 1..Len(stack[1].parts) |-> stack[1].parts[j].text], <<"\n">>)
                 = Join([j \in 1..Len(call.arg) |-> RStrip(ReplaceTabsLine(call.arg[j]))],
                        <<"\n">>)
       /\ IF SegmentDone
          THEN \E seg \in {IF Part.type = CODE /\ branch_active(cond) THEN ret ELSE Part.text} :
                  /\ stack'[1].local_output.code_all
                        = Top.local_output.code_all \o seg \o <<"\n">>
                  /\ output'.code_all
                        = IF Top.global_output THEN output.code_all \o seg \o <<"\n">>
                          ELSE output.code_all
          ELSE /\ output'.code_all = output.code_all \/ output' = NewOutput
               /\ (Running /\ stack[1].k = "process_code" /\ stack' # <<>>)
                    => stack'[1].local_output.code_all = stack[1].local_output.code_all
       /\ (Running /\ Len(stack) = 1 /\ Top.k = "process_code" /\ stack' = <<>>)
            => Top.idx = Len(Top.parts) + 1]_vars

\* process_code has returned for #define X 1 / int v = X; and code_all holds the
\* second line with its macro reference expanded
C7_ExpandedInCodeAll ==
    /\ Processed(1, <<LnDefX1, <<"i","n","t"," ","v"," ","="," ","X",";">>>>)
    /\ done[1].output.code_all = <<"#","d","e","f","i","n","e"," ","X"," ","1","\n","i","n","t"," ","v"," ","="," ","1",";","\n">>

\* the input as one text, its tabs expanded and the whitespace at the end of
\* each line removed
Normalised(lines) ==
    Join([j \in 1..Len(lines) |-> RStrip(ReplaceTabsLine(lines[j]))], <<"\n">>)

\* a line of a directive, a line that is a comment, a line that a backslash continues
IsDirectiveLine(line) == StartsWith(Strip(line), <<"#">>)

IsCommentLine(line) ==
    \/ StartsWith(Strip(line), <<"/", "/">>)
    \/ StartsWith(Strip(line), <<"/", "*">>)

IsContinuedLine(line) == EndsWith(RStrip(line), <<"\\">>)

\* the first call of the session was process_code, on an object that has no
\* macro yet, of lines without a directive, and it has returned its trimmed output
PlainInputProcessed ==
    /\ done # <<>>
    /\ done[1].call.op = "process_code"
    /\ ~done[1].call.full_local_output
    /\ \A j \in 1..Len(done[1].call.arg) : ~IsDirectiveLine(done[1].call.arg[j])

\* C8 as the specification states it: for an input without directives and
\* macro references, the trimmed output process_code returns equals the input,
\* both trimmed, up to tab expansion and the whitespace at the end of the lines
C8_PlainInputPreserved ==
    PlainInputProcessed => Strip(done[1].ret) = Strip(Normalised(done[1].call.arg))

\* every comment line of the input is directly followed by a comment line or by
\* a line of code, and no line is continued by a backslash
CommentsAttached(lines) ==
    \A j \in 1..Len(lines) :
        /\ ~IsContinuedLine(lines[j])
        /\ IsCommentLine(lines[j]) => (j < Len(lines) /\ Strip(lines[j + 1]) # <<>>)

\* C8, amended: for an input without directives, macro references and continued
\* lines, in which every comment is directly followed by a comment or by code,
\* the trimmed output process_code returns equals the input, both trimmed, up
\* to tab expansion and the whitespace at the end of the lines
C8_AttachedInputPreserved ==
    (PlainInputProcessed /\ CommentsAttached(done[1].call.arg))
        => Strip(done[1].ret) = Strip(Normalised(done[1].call.arg))

\* process_code has returned for a blank line, a comment and a line of code
\* with tabs and trailing spaces: the comment and the code, tabs expanded
C8_CommentAndCodeKept ==
    /\ Processed(1, <<LnBlank, LnCmnt, LnTabs>>)
    /\ PlainInputProcessed
    /\ CommentsAttached(done[1].call.arg)
    /\ done[1].ret = <<"/","/"," ","c","\n"," "," "," "," ","i","n","t"," ","y",";","\n">>

\* C9: no public operation propagates an exception to its caller
C9_NoExceptionPropagates == pc # "raised"

\* evaluate("1 << -1") has ended with Python's ValueError for the negative shift
\* count, which evaluate does not catch
C9_ShiftCountPropagates ==
    /\ pc = "raised"
    /\ exc = "ValueError"
    /\ call = Evaluate(<<"1"," ","<","<"," ","-","1">>)

\* the session has processed an input that includes a file, in an active branch
\* if the input is lines, and after a reset the same input with the lines of
\* the file in the place of the #include
IncludedAndInlined(lines) ==
    /\ Len(done) = 3
    /\ done[1].call = ProcessCode(lines)
    /\ done[2].call = Reset
    /\ done[3].call = ProcessCode(Inlined(lines))
    /\ ~skipped

\* C10: process_code of an input with #include "f" in an active branch leaves
\* the macro table and the condition manager as process_code of the input with
\* the lines of f in the place of the directive leaves them
C10_IncludeTransparent ==
    \A lines \in InclInputs :
        IncludedAndInlined(lines)
            => /\ done[1].macros = done[3].macros
               /\ done[1].cond = done[3].cond

\* the file o, which opens an #if it does not close and defines A, has been
\* included and inlined: either way the #if is left open and A is defined
C10_OpenIfLeftOpen ==
    /\ IncludedAndInlined(<<LnIncl(<<"o">>)>>)
    /\ branch_depth(done[1].cond) = 1
    /\ branch_depth(done[3].cond) = 1
    /\ IsDefined(done[1].macros, <<"A">>)
    /\ IsDefined(done[3].macros, <<"A">>)

\* the session has processed lines without the global output, and after a reset
\* with it
LocalAndGlobal(lines) ==
    /\ Len(done) = 4
    /\ done[2].call = ProcessCodeLocal(lines)
    /\ done[3].call = Reset
    /\ done[4].call = ProcessCode(lines)

\* C11: while process_code runs with global_output=false, the global output with
\* its pending space and comment does not change, and while an included file
\* is processed neither the global output nor the local output of the includer
\* changes; the call leaves the macro table and the condition manager, and
\* returns the text, that the same call with the global output leaves and returns
C11_GlobalOutputKept ==
    [][/\ (Running /\ stack[1].k = "process_code" /\ ~stack[1].global_output)
            => output' = output
       /\ (Running /\ Len(stack) >= 2 /\ stack[2].k = "process_code" /\ stack' # <<>>)
            => /\ output' = output
               /\ stack'[1].local_output = stack[1].local_output
       /\ \A lines \in LocalInputs :
             LocalAndGlobal(lines)
                => /\ done[2].output = done[1].output
                   /\ done[2].macros = done[4].macros
                   /\ done[2].cond = done[4].cond
                   /\ done[2].ret = done[4].ret]_vars

\* process_code(global_output=false) of X / #include "d" / Y has returned X and Y
\* without the lines of the file d, has defined the macro A of d, and the global
\* output is as the call before left it, its pending empty line included
C11_LocalIncludeDone ==
    /\ LocalAndGlobal(<<LnX, LnIncl(<<"d">>), LnY>>)
    /\ done[2].ret = <<"X","\n","Y","\n">>
    /\ IsDefined(done[2].macros, <<"A">>)
    /\ done[2].output = done[1].output
    /\ done[1].output.last_space # <<>>
    /\ done[4].output.code = done[2].ret

(***************************************************************************)
(* The condition manager on its own: from a new manager, any sequence of   *)
(* calls of its methods, as the handlers of the conditional directives     *)
(* make them.  call holds the last call made.                              *)
(***************************************************************************)
\* the depth up to which enter_if is called
MaxDepth == 4

ManagerCall(op, is_true) ==
    /\ call' = [op |-> op, arg |-> is_true]
    /\ UNCHANGED <<macros, output, stack, ret, pc, exc, done, todo, skipped>>
    /\ beat' = ~beat

\* __process_if, __process_ifdef, __process_ifndef
ManagerEnterIf(is_true) ==
    /\ branch_depth(cond) < MaxDepth
    /\ cond' = enter_if(cond, is_true)
    /\ ManagerCall("enter_if", is_true)
    /\ UNCHANGED log

\* __process_elif
ManagerEnterElif(is_true) ==
    /\ cond' = enter_elif(cond, is_true)
    /\ ManagerCall("enter_elif", is_true)
    /\ UNCHANGED log

\* __process_else
ManagerElse ==
    /\ cond' = enter_elif(cond, TRUE)
    /\ ManagerCall("else", TRUE)
    /\ UNCHANGED log

\* __process_endif
ManagerExitIf ==
    /\ cond' = exit_if(cond)
    /\ log' = IF ExitIfFails(cond) THEN log \cup {"unexpected #endif"} ELSE log
    /\ ManagerCall("exit_if", TRUE)

ManagerInit ==
    /\ todo = <<>>
    /\ Fresh

ManagerNext ==
    \/ \E is_true \in BOOLEAN : ManagerEnterIf(is_true)
    \/ \E is_true \in BOOLEAN : ManagerEnterElif(is_true)
    \/ ManagerElse
    \/ ManagerExitIf

ManagerSpec == ManagerInit /\ [][ManagerNext]_vars

\* the state the table of the specification gives after enter_if
TableIf(state, is_true) ==
    CASE state = ACTIVE -> IF is_true THEN ACTIVE ELSE SEARCH
      [] state = SEARCH -> IGNORE
      [] state = IGNORE -> IGNORE

\* the state the table gives after enter_elif
TableElif(state, is_true) ==
    CASE state = ACTIVE -> IGNORE
      [] state = SEARCH -> IF is_true THEN ACTIVE ELSE SEARCH
      [] state = IGNORE -> IGNORE

\* the state the table gives after #else
TableElse(state) ==
    CASE state = ACTIVE -> IGNORE
      [] state = SEARCH -> ACTIVE
      [] state = IGNORE -> IGNORE

\* C12: every call follows the transition table: enter_if pushes the current
\* state and sets the state of the table, enter_elif and #else set the state of
\* the table and leave the stack, exit_if with a non-empty stack sets the
\* current state to the state it pops
C12_TransitionTable ==
    [][CASE call'.op = "enter_if" ->
              /\ cond'.branch_state_stack
                    = Append(cond.branch_state_stack, cond.branch_state)
              /\ cond'.branch_state = TableIf(cond.branch_state, call'.arg)
         [] call'.op = "enter_elif" ->
              /\ cond'.branch_state_stack = cond.branch_state_stack
              /\ cond'.branch_state = TableElif(cond.branch_state, call'.arg)
         [] call'.op = "else" ->
              /\ cond'.branch_state_stack = cond.branch_state_stack
              /\ cond'.branch_state = TableElse(cond.branch_state)
         [] call'.op = "exit_if" ->
              cond.branch_state_stack # <<>>
                 => /\ cond'.branch_state_stack \o <<cond'.branch_state>>
                         = cond.branch_state_stack
         [] OTHER -> FALSE]_vars

\* in state SEARCH below a pushed ACTIVE, enter_elif with a false condition
\* has been called: the manager is still in state SEARCH
C12_SearchGoesOn ==
    /\ call = [op |-> "enter_elif", arg |-> FALSE]
    /\ cond = [branch_state |-> SEARCH, branch_state_stack |-> <<ACTIVE>>]

\* C13: an #endif read while the condition stack is empty reports the error of
\* an unexpected #endif and leaves the branch state and the empty stack as they
\* are, and process_code goes on to the next segment
C13_StrayEndifIgnored ==
    [][(/\ AtPart({DIRECTIVE})
        /\ DirectiveName(Part.text) = KwEndif
        /\ cond.branch_state_stack = <<>>)
        => /\ cond' = cond
           /\ "unexpected #endif" \in log'
           /\ pc' = "run"
           /\ Len(stack') = Len(stack)
           /\ stack'[Len(stack)].idx = Top.idx + 1
           /\ stack'[Len(stack)].ph = "next"]_vars

\* #endif, #if 0 and X have been processed by a new object: the error was
\* reported, and the #if after the #endif was read in state ACTIVE
C13_IfAfterStrayEndif ==
    /\ Processed(1, <<LnEndif, LnIf0, LnX>>)
    /\ "unexpected #endif" \in done[1].log
    /\ done[1].cond = [branch_state |-> SEARCH, branch_state_stack |-> <<ACTIVE>>]

\* process_code stands at a directive
AtDirective ==
    /\ Running
    /\ Top.k = "process_code"
    /\ Top.idx <= Len(Top.parts)
    /\ Part.type = DIRECTIVE

\* the step in which process_code ends the iteration of its loop for the part
PartEnds ==
    /\ Len(stack') = Len(stack)
    /\ stack'[Len(stack)].idx = Top.idx + 1

\* the conditional directive the part is, "none" when no conditional pattern matches
PartConditional == ConditionalMatch(remove_line_escapes(Part.text, FALSE)).kind

\* C14: in state SEARCH or IGNORE a #define, #undef or #include leaves the
\* macro table as it is and no file is read; a conditional directive updates the
\* condition manager in every branch state, by enter_if, enter_elif or exit_if; a
\* directive that no pattern matches changes neither the macro table nor the
\* condition manager
C14_DispatchByBranch ==
    [][/\ (/\ AtDirective
           /\ DirectiveName(Part.text) \in {KwDefine, KwUndef, KwInclude}
           /\ cond.branch_state \in {SEARCH, IGNORE})
           => /\ macros' = macros
              /\ cond' = cond
              /\ PartEnds
              /\ log' \ log \subseteq {"unterminated comment"}
       /\ (AtDirective /\ PartEnds /\ PartConditional # "none")
           => /\ macros' = macros
              /\ cond' \in CASE PartConditional \in {"if", "ifdef", "ifndef"} ->
                                  {enter_if(cond, is_true) : is_true \in BOOLEAN}
                             [] PartConditional = "elif" ->
                                  {enter_elif(cond, is_true) : is_true \in BOOLEAN}
                             [] PartConditional = "else" -> {enter_elif(cond, TRUE)}
                             [] PartConditional = "endif" -> {exit_if(cond)}
       /\ (/\ AtDirective
           /\ PartConditional = "none"
           /\ StandardMatch(remove_line_escapes(Part.text, FALSE)) = "none")
           => /\ macros' = macros
              /\ cond' = cond
              /\ PartEnds]_vars

\* #define X 1, #if 0, #define A B, #undef X and #include "d" have been
\* processed: X is the only macro of the table, the #if is still open
C14_SearchKeepsTable ==
    /\ Processed(1, <<LnDefX1, LnIf0, LnDefAB, LnUndefX, LnIncl(<<"d">>)>>)
    /\ IsDefined(done[1].macros, <<"X">>)
    /\ ~IsDefined(done[1].macros, <<"A">>)
    /\ done[1].cond = [branch_state |-> SEARCH, branch_state_stack |-> <<ACTIVE>>]
    /\ "file not found" \notin done[1].log

(***************************************************************************)
(* The output assembler on its own: from a new PreprocOutput, any sequence *)
(* of segments added to it.  done holds the segments added so far.         *)
(***************************************************************************)
\* the number of segments added
MaxSegments == 4

\* the texts of the segments
SegmentTexts == {<<>>, <<"a">>}

AddCodePart(code_part, code_type) ==
    /\ Len(done) < MaxSegments
    /\ output' = add_code_part(output, code_part, code_type)
    /\ done' = Append(done, [code_part |-> code_part, code_type |-> code_type])
    /\ UNCHANGED <<macros, cond, log, stack, ret, pc, exc, call, todo, skipped>>
    /\ beat' = ~beat

AssemblerInit ==
    /\ todo = <<>>
    /\ Fresh

AssemblerNext ==
    \E code_part \in SegmentTexts, code_type \in {CODE, DIRECTIVE, SPACE, COMMENT} :
        AddCodePart(code_part, code_type)

AssemblerSpec == AssemblerInit /\ [][AssemblerNext]_vars

\* the segment added by the step
Added == done'[Len(done')]

\* C15: a CODE segment appends to code the pending space, the pending comments
\* and its text with a newline, and clears both pending fields; a DIRECTIVE
\* segment clears both pending fields and leaves code as it is; a SPACE or
\* COMMENT segment leaves code as it is, and a SPACE segment clears the pending
\* comment and is the pending space when a CODE segment was added before it,
\* and is dropped when none was
C15_AssemblerRules ==
    [][CASE Added.code_type = CODE ->
              /\ output'.code = output.code \o output.last_space \o output.last_comment
                                    \o Added.code_part \o <<"\n">>
              /\ output'.last_space = <<>>
              /\ output'.last_comment = <<>>
         [] Added.code_type = DIRECTIVE ->
              /\ output'.code = output.code
              /\ output'.last_space = <<>>
              /\ output'.last_comment = <<>>
         [] Added.code_type = SPACE ->
              /\ output'.code = output.code
              /\ output'.last_comment = <<>>
              /\ output'.last_space =
                    IF \E i \in 1..Len(done) : done[i].code_type = CODE
                    THEN Added.code_part \o <<"\n">> ELSE <<>>
         [] Added.code_type = COMMENT ->
              /\ output'.code = output.code
              /\ output'.last_space = output.last_space]_vars

\* code, an empty line, a comment and code have been added: the second code
\* stands in code after the empty line and the comment
C15_SpaceThenComment ==
    /\ done = <<[code_part |-> <<"a">>, code_type |-> CODE],
                [code_part |-> <<>>, code_type |-> SPACE],
                [code_part |-> <<"a">>, code_type |-> COMMENT],
                [code_part |-> <<"a">>, code_type |-> CODE]>>
    /\ output.code = <<"a", "\n", "\n", "a", "\n", "a", "\n">>
    /\ output.last_space = <<>>
    /\ output.last_comment = <<>>

\* C16: with #define SQ(x) body, the body made of the words x and y, the
\* operator * and spaces, the reference SQ(3) expands to the body with 3 in
\* the place of every whole-word occurrence of x, however the occurrences are
\* separated
C16_ParameterReplaced ==
    \A q \in SeqsUpTo(BodyPieces, MaxPieces) :
        (/\ Len(done) >= 2
         /\ done[1].call = ProcessCode(<<LnDefSQ(BodyText(q))>>)
         /\ done[2].call = ExpandMacros(RefSQ))
            => done[2].ret = Strip(WordSubst(BodyText(q), <<"x">>, <<"3">>))

\* with #define SQ(x) x*x, expand_macros has returned 3*x for SQ(3)
C16_SecondOccurrenceKept ==
    /\ Len(done) >= 2
    /\ done[1].call = ProcessCode(<<LnDefSQ(<<"x","*","x">>)>>)
    /\ done[2].call = ExpandMacros(RefSQ)
    /\ done[2].ret = <<"3","*","x">>

\* C17: is_true of defined(X) or defined X, alone or in parentheses, with or
\* without spaces inside the parentheses, is true exactly when X is in the
\* macro table, whatever the body of X
C17_DefinedReplaced ==
    \A d \in DefinedTables, e \in DefinedExprs :
        (/\ Len(done) >= 2
         /\ done[1].call = ProcessCode(<<d>>)
         /\ done[2].call = IsTrue(e))
            => (done[2].ret = PyBool(TRUE) <=> IsDefined(done[1].macros, <<"X">>))

\* after #define X 1, is_true has returned False for (defined(X))
C17_DefinedAfterParenKept ==
    /\ Len(done) >= 2
    /\ done[1].call = ProcessCode(<<LnDefX1>>)
    /\ IsDefined(done[1].macros, <<"X">>)
    /\ done[2].call = IsTrue(<<"(","d","e","f","i","n","e","d","(","X",")",")">>)
    /\ done[2].ret = PyBool(FALSE)

\* C18: evaluate and is_true return for an expression followed by a comment
\* what they return for the expression alone, and #if with the expression
\* followed by the comment enters the branch state that #if with the expression
\* alone enters
C18_CommentsStripped ==
    \A e \in CommentedExprs, c \in ExprComments :
        /\ (/\ Len(done) = 5
            /\ done[2].call = Evaluate(e)
            /\ done[3].call = Evaluate(e \o c))
              => /\ done[3].ret = done[2].ret
                 /\ done[5].ret = done[4].ret
        /\ (/\ Len(done) = 3
            /\ done[1].call = ProcessCode(<<LnIf(e)>>)
            /\ done[3].call = ProcessCode(<<LnIf(e \o c)>>))
              => done[3].cond = done[1].cond

\* is_true has returned True for 1 and False for 1 /* x */
C18_CommentMakesFalse ==
    /\ Len(done) = 5
    /\ done[4].call = IsTrue(<<"1">>)
    /\ done[4].ret = PyBool(TRUE)
    /\ done[5].call = IsTrue(<<"1"," ","/","*"," ","x"," ","*","/">>)
    /\ done[5].ret = PyBool(FALSE)

(***************************************************************************)
(* __extract_macro_ref_args on its own: the text between the parentheses   *)
(* of a reference is drawn at the start, and the one step applies the      *)
(* method to it.                                                           *)
(***************************************************************************)
\* the pieces of the texts: a word, a comma, a space, a newline, a nested
\* parenthesis and a string literal with a comma in them
RefArgPieces ==
    {<<"a">>, <<",">>, <<" ">>, <<"\n">>, <<"(","a",",","b",")">>, <<"\"","a",",","b","\"">>}

ExtractMacroRefArgs(args_code) ==
    [op |-> "extract_macro_ref_args", arg |-> args_code, global_output |-> FALSE,
     full_local_output |-> FALSE]

ArgsInit ==
    /\ macros = <<>>
    /\ cond = NewCondMngr
    /\ output = NewOutput
    /\ log = {}
    /\ stack = <<>>
    /\ ret = <<>>
    /\ pc = "idle"
    /\ exc = ""
    /\ call \in {ExtractMacroRefArgs(BodyText(q)) : q \in SeqsUpTo(RefArgPieces, MaxPieces)}
    /\ done = <<>>
    /\ todo = <<>>
    /\ skipped = FALSE
    /\ beat = FALSE

ArgsExtract ==
    /\ done = <<>>
    /\ ret' = extract_macro_ref_args(call.arg)
    /\ done' = <<[call |-> call, ret |-> ret']>>
    /\ UNCHANGED <<macros, cond, output, log, stack, pc, exc, call, todo, skipped>>
    /\ beat' = ~beat

ArgsNext == ArgsExtract

ArgsSpec == ArgsInit /\ [][ArgsNext]_vars

\* the texts between the commas of s that stand outside parentheses and outside
\* string literals; depth counts the parentheses that are open, quoted tells
\* whether a string literal is open, cur is the text since the last such comma
RECURSIVE TopLevelSplit(_, _, _, _)
TopLevelSplit(s, depth, quoted, cur) ==
    IF s = <<>> THEN <<cur>>
    ELSE IF Head(s) = "," /\ depth = 0 /\ ~quoted
         THEN <<cur>> \o TopLevelSplit(Tail(s), depth, quoted, <<>>)
         ELSE TopLevelSplit(Tail(s),
                            IF quoted THEN depth
                            ELSE IF Head(s) = "(" THEN depth + 1
                            ELSE IF Head(s) = ")" THEN depth - 1
                            ELSE depth,
                            IF Head(s) = "\"" THEN ~quoted ELSE quoted,
                            cur \o <<Head(s)>>)

\* the arguments the specification describes: the texts between the top-level
\* commas, without their newlines and trimmed
ExpectedArgs(args_code) ==
    LET parts == TopLevelSplit(args_code, 0, FALSE, <<>>)
    IN  [i \in 1..Len(parts) |-> Strip(Replace(parts[i], <<"\n">>, <<>>))]

\* C19: the arguments are the texts between the commas that stand outside nested
\* parentheses and outside string literals, each trimmed on both sides and
\* without its newlines, and otherwise as in the reference
C19_ArgumentsAsWritten ==
    done # <<>> => done[1].ret = ExpectedArgs(done[1].call.arg)

\* the one argument of the text (a,b) is (a, b): a space stands after the comma
C19_SpaceAddedInParentheses ==
    /\ done # <<>>
    /\ done[1].call.arg = <<"(","a",",","b",")">>
    /\ done[1].ret = <<<<"(","a",","," ","b",")">>>>

\* C20: after a #define of an identifier, with or without a parameter list,
\* in an active branch, the macro table holds for the identifier a macro whose
\* body is the rest of the line, trimmed on both ends, whatever the identifier
C20_BodyIsRestOfLine ==
    \A ident \in DefinedIdents, params \in DefinedParams, body \in DefinedBodies :
        Processed(1, <<LnDefine(ident, params, body)>>)
            => \E i \in 1..Len(done[1].macros) :
                  /\ done[1].macros[i].identifier = ident
                  /\ done[1].macros[i].body = Strip(body)

\* #define e 1 has been processed: the body of the macro e is fine e 1
C20_BodyFromInsideKeyword ==
    /\ Processed(1, <<LnDefine(<<"e">>, <<>>, <<"1">>)>>)
    /\ done[1].macros = <<[identifier |-> <<"e">>, args |-> <<>>,
                           body |-> <<"f","i","n","e"," ","e"," ","1">>]>>

\* C22: when the branch state is ACTIVE every entry of the condition stack is
\* ACTIVE, and when it is SEARCH the stack is not empty and its top entry is
\* ACTIVE
C22_StackBelowActive ==
    /\ cond.branch_state = ACTIVE
         => \A i \in 1..Len(cond.branch_state_stack) : cond.branch_state_stack[i] = ACTIVE
    /\ cond.branch_state = SEARCH
         => /\ cond.branch_state_stack # <<>>
            /\ cond.branch_state_stack[Len(cond.branch_state_stack)] = ACTIVE

\* enter_elif with a true condition has made the branch ACTIVE at depth 2
C22_ActiveByElifAtDepth ==
    /\ call = [op |-> "enter_elif", arg |-> TRUE]
    /\ cond = [branch_state |-> ACTIVE, branch_state_stack |-> <<ACTIVE, ACTIVE>>]

(***************************************************************************)
(* The condition manager with the history of its open chains: done holds,  *)
(* for each #if that is open, whether the state at its depth has been      *)
(* ACTIVE since the #if (was_active), and whether an #elif or #else of the  *)
(* chain was read after that (closed).                                     *)
(***************************************************************************)
ChainCall(op, is_true) ==
    /\ call' = [op |-> op, arg |-> is_true]
    /\ log' = IF op = "exit_if" /\ ExitIfFails(cond) THEN log \cup {"unexpected #endif"}
              ELSE log
    /\ UNCHANGED <<macros, output, stack, ret, pc, exc, todo, skipped>>
    /\ beat' = ~beat

\* #if, #ifdef, #ifndef: a chain opens
ChainIf(is_true) ==
    /\ branch_depth(cond) < MaxDepth
    /\ cond' = enter_if(cond, is_true)
    /\ done' = Append(done, [was_active |-> cond'.branch_state = ACTIVE, closed |-> FALSE])
    /\ ChainCall("enter_if", is_true)

\* the history after an #elif or #else: the innermost chain gets its next
\* branch; a directive read outside every chain leaves no history
NextBranch ==
    IF done = <<>> THEN done
    ELSE [done EXCEPT ![Len(done)] =
            [was_active |-> @.was_active \/ cond'.branch_state = ACTIVE,
             closed |-> @.closed \/ @.was_active]]

\* #elif
ChainElif(is_true) ==
    /\ cond' = enter_elif(cond, is_true)
    /\ done' = NextBranch
    /\ ChainCall("enter_elif", is_true)

\* #else
ChainElse ==
    /\ cond' = enter_elif(cond, TRUE)
    /\ done' = NextBranch
    /\ ChainCall("else", TRUE)

\* #endif: the innermost chain ends
ChainEndif ==
    /\ cond' = exit_if(cond)
    /\ done' = SubSeq(done, 1, Len(done) - 1)
    /\ ChainCall("exit_if", TRUE)

ChainInit ==
    /\ todo = <<>>
    /\ Fresh

ChainNext ==
    \/ \E is_true \in BOOLEAN : ChainIf(is_true)
    \/ \E is_true \in BOOLEAN : ChainElif(is_true)
    \/ ChainElse
    \/ ChainEndif

ChainSpec == ChainInit /\ [][ChainNext]_vars

\* the branch state at the depth of the d-th open chain
StateOfChain(d) ==
    IF d = Len(cond.branch_state_stack) THEN cond.branch_state
    ELSE cond.branch_state_stack[d + 1]

RECURSIVE SelectedText(_, _)
SelectedText(i, S) ==
    IF i > Len(done) THEN <<>>
    ELSE (IF i \in S THEN done[i].code_part \o <<"\n">> ELSE <<>>) \o SelectedText(i + 1, S)

\* C23: every segment added stands in code_all, in the order of the calls, and
\* code is made of some of the segments that are not directives, in that order
C23_CodeWithinCodeAll ==
    /\ output.code_all = SelectedText(1, 1..Len(done))
    /\ \E S \in SUBSET {i \in 1..Len(done) : done[i].code_type # DIRECTIVE} :
          output.code = SelectedText(1, S)

\* code, a directive, a comment and code have been added: code holds the three
\* segments that are not the directive
C23_DirectiveLeftOut ==
    /\ done = <<[code_part |-> <<"a">>, code_type |-> CODE],
                [code_part |-> <<"a">>, code_type |-> DIRECTIVE],
                [code_part |-> <<"a">>, code_type |-> COMMENT],
                [code_part |-> <<>>, code_type |-> CODE]>>
    /\ output.code = <<"a", "\n", "a", "\n", "\n">>
    /\ output.code_all = <<"a", "\n", "a", "\n", "a", "\n", "\n">>
=============================================================================
